---------------------------- MODULE Spec2Model ----------------------------
(***************************************************************************)
(* A model of ghavm's resolution engine: the memoizing request cache       *)
(* (Cache.Do), the three cached resolver calls of GitHubClient, the        *)
(* bounded-concurrency dispatch loop Engine.resolveSteps with its          *)
(* per-step task Engine.resolveStep, and Engine.Pin which gates the        *)
(* rewrite phase on the outcome of the resolution pass.                    *)
(***************************************************************************)
EXTENDS Integers, Sequences, FiniteSets, TLC

(***************************************************************************)
(* Bounds of the model.                                                    *)
(***************************************************************************)
\* largest worker count handed to newEngine
MaxWorkers == 2

(***************************************************************************)
(* Values.                                                                 *)
(***************************************************************************)
\* Release{} : the absent release
NoRelease == [Version |-> "", CommitHash |-> ""]

\* UpgradeCandidates{} : no candidates
NoCandidates == [Latest |-> NoRelease, LatestCompatible |-> NoRelease]

\* a nil error
NoErr == [step |-> 0, op |-> "nil", isCanceled |-> FALSE, cause |-> "none"]

\* PinMode values
ModeCurrent == "current"
ModeLatest == "latest"
ModeCompat == "latest compatible"
PinModes == {ModeCurrent, ModeLatest, ModeCompat}

\* Release.Exists
ExistsByVersion(r) == r.Version # ""

Exists(r) == r # NoRelease

\* sorted workflow keys: slices.Sorted(maps.Keys(e.root.Workflows))
workflowKeys == <<"a.yml", "b.yml">>

NewStep(line, name, ref) ==
    [LineNumber |-> line, Name |-> name, Ref |-> ref,
     Release |-> NoRelease, UpgradeCandidates |-> NoCandidates]

\* The roots handed over by the scan phase: every step carries its action's
\* name and ref, release and upgrade candidates are empty.
Roots ==
    { [w \in {"a.yml", "b.yml"} |->
         IF w = "a.yml"
         THEN <<NewStep(3, "o/a", "v1"), NewStep(5, "o/b", "v1")>>
         ELSE <<NewStep(2, "o/a", "v1")>>],
      [w \in {"a.yml", "b.yml"} |->
         IF w = "a.yml"
         THEN <<NewStep(4, "o/a", "main")>>
         ELSE <<NewStep(1, "o/b", "main"), NewStep(7, "o/a", "v1")>>] }

(***************************************************************************)
(* The remote repository host.  What the host answers is fixed for a run   *)
(* (a deterministic resolver); which lookups fail is part of the scenario. *)
(***************************************************************************)
\* (repository, ref) -> commit the ref points to
RemoteCommit(name, ref) ==
    CASE name = "o/a" /\ ref = "v1" -> "c1"
      [] name = "o/a" /\ ref = "main" -> "c1"
      [] name = "o/b" /\ ref = "v1" -> "c3"
      [] name = "o/b" /\ ref = "main" -> "c4"
      [] OTHER -> ""

\* (repository, commit) -> semver tags pointing at the commit, newest first
RemoteTags(name, commit) ==
    CASE name = "o/a" /\ commit = "c1" -> <<"v1.2.0", "v1">>
      [] name = "o/b" /\ commit = "c3" -> <<"v1.0.0">>
      [] OTHER -> <<>>

\* (repository, version) -> upgrade candidates computed from the release list
RemoteCandidates(name, version) ==
    CASE name = "o/a" /\ version = "v1.2.0" ->
            [Latest |-> [Version |-> "v2.0.0", CommitHash |-> "c9"],
             LatestCompatible |-> [Version |-> "v1.2.0", CommitHash |-> "c1"]]
      [] OTHER -> NoCandidates

\* the failure scenarios: lookups that fail on the host's side
Remotes ==
    { [noRef |-> {}, tagErr |-> {}, upErr |-> {}],
      [noRef |-> {<<"o/b", "v1">>, <<"o/b", "main">>}, tagErr |-> {}, upErr |-> {}],
      [noRef |-> {<<"o/a", "v1">>}, tagErr |-> {}, upErr |-> {}],
      [noRef |-> {}, tagErr |-> {<<"o/a", "c1">>}, upErr |-> {}],
      [noRef |-> {}, tagErr |-> {}, upErr |-> {<<"o/a", "v1.2.0">>}] }

(***************************************************************************)
(* Strings as the library functions see them: sequences of characters.     *)
(***************************************************************************)
\* the characters of the strings the model uses, in ASCII order
Alphabet ==
    <<"+", "-", ".", "/", "0", "1", "2", "3", "4", "5", "6", "7", "8", "9",
      "a", "b", "c", "d", "e", "f", "i", "l", "m", "n", "o", "p", "r", "s", "t", "v">>

\* the rank of a character in ASCII order
Code(c) == CHOOSE k \in 1..Len(Alphabet) : Alphabet[k] = c

\* the characters of a string
Chars(s) ==
    CASE s = "" -> <<>>
      [] s = "main" -> <<"m", "a", "i", "n">>
      [] s = "develop" -> <<"d", "e", "v", "e", "l", "o", "p">>
      [] s = "1.0.0" -> <<"1", ".", "0", ".", "0">>
      [] s = "v1" -> <<"v", "1">>
      [] s = "v01" -> <<"v", "0", "1">>
      [] s = "v1.0.0" -> <<"v", "1", ".", "0", ".", "0">>
      [] s = "v1.0.1" -> <<"v", "1", ".", "0", ".", "1">>
      [] s = "v1.0.1-prerelease" ->
            <<"v", "1", ".", "0", ".", "1", "-",
              "p", "r", "e", "r", "e", "l", "e", "a", "s", "e">>
      [] s = "v1.1.0" -> <<"v", "1", ".", "1", ".", "0">>
      [] s = "v1.2.0" -> <<"v", "1", ".", "2", ".", "0">>
      [] s = "v2.0.0" -> <<"v", "2", ".", "0", ".", "0">>
      [] s = "v10.0.0" -> <<"v", "1", "0", ".", "0", ".", "0">>
      [] s = "abc123" -> <<"a", "b", "c", "1", "2", "3">>
      [] s = "bad" -> <<"b", "a", "d">>
      [] s = "d" -> <<"d">>
      [] s = "aaa" -> <<"a", "a", "a">>
      [] s = "dddd" -> <<"d", "d", "d", "d">>
      [] s = "abc123ff" -> <<"a", "b", "c", "1", "2", "3", "f", "f">>
      [] s = "nope" -> <<"n", "o", "p", "e">>
      [] s = "c/d" -> <<"c", "/", "d">>
      [] s = "o/a" -> <<"o", "/", "a">>
      [] s = "o/b" -> <<"o", "/", "b">>
      [] s = "a/b" -> <<"a", "/", "b">>
      [] s = "a/b/c" -> <<"a", "/", "b", "/", "c">>
      [] s = "invalid-format" ->
            <<"i", "n", "v", "a", "l", "i", "d", "-", "f", "o", "r", "m", "a", "t">>

\* strings.Compare on two strings given by their characters
RECURSIVE CompareChars(_, _)
CompareChars(x, y) ==
    IF x = <<>> /\ y = <<>> THEN 0
    ELSE IF x = <<>> THEN -1
    ELSE IF y = <<>> THEN 1
    ELSE IF Code(Head(x)) < Code(Head(y)) THEN -1
    ELSE IF Code(Head(x)) > Code(Head(y)) THEN 1
    ELSE CompareChars(Tail(x), Tail(y))

(***************************************************************************)
(* golang.org/x/mod/semver, as the client uses it.                         *)
(***************************************************************************)
IsDigit(c) == c \in {"0", "1", "2", "3", "4", "5", "6", "7", "8", "9"}

\* isIdentChar: [0-9A-Za-z-]
IsIdentChar(c) == c = "-" \/ IsDigit(c) \/ Code(c) >= Code("a")

\* the position after the run of digits that starts at position i
RECURSIVE DigitsEnd(_, _)
DigitsEnd(cs, i) ==
    IF i <= Len(cs) /\ IsDigit(cs[i]) THEN DigitsEnd(cs, i + 1) ELSE i

\* parseInt: a non-empty run of digits from position i without a leading zero
IntOk(cs, i) ==
    /\ DigitsEnd(cs, i) > i
    /\ cs[i] = "0" => DigitsEnd(cs, i) = i + 1

\* isNum: only digits
IsNum(x) == \A k \in 1..Len(x) : IsDigit(x[k])

\* isBadNum: a number with a leading zero
IsBadNum(x) == IsNum(x) /\ Len(x) > 1 /\ x[1] = "0"

\* the position of the first character c at or after i, or Len + 1
RECURSIVE IndexFrom(_, _, _)
IndexFrom(cs, c, i) ==
    IF i > Len(cs) \/ cs[i] = c THEN i ELSE IndexFrom(cs, c, i + 1)

\* the dot-separated identifiers of x
RECURSIVE Idents(_)
Idents(x) ==
    LET d == IndexFrom(x, ".", 1) IN
    IF d > Len(x) THEN <<x>>
    ELSE <<SubSeq(x, 1, d - 1)>> \o Idents(SubSeq(x, d + 1, Len(x)))

\* parsePrerelease, on the text after the hyphen
PrereleaseOk(x) ==
    \A k \in 1..Len(Idents(x)) :
        LET id == Idents(x)[k] IN
        /\ id # <<>>
        /\ \A j \in 1..Len(id) : IsIdentChar(id[j])
        /\ ~IsBadNum(id)

\* parseBuild, on the text after the plus sign
BuildOk(x) ==
    \A k \in 1..Len(Idents(x)) :
        LET id == Idents(x)[k] IN
        /\ id # <<>>
        /\ \A j \in 1..Len(id) : IsIdentChar(id[j])

NotSemver == [ok |-> FALSE, major |-> <<>>, minor |-> <<>>, patch |-> <<>>, pre |-> <<>>]

\* what follows the patch number: an optional prerelease, an optional build
ParseTail(cs, i, major, minor, patch) ==
    LET n == Len(cs)
        plus == IndexFrom(cs, "+", i)
        hasPre == i <= n /\ cs[i] = "-"
        pre == IF hasPre THEN SubSeq(cs, i + 1, plus - 1) ELSE <<>>
        preOk == hasPre => PrereleaseOk(pre)
        restOk == IF hasPre THEN TRUE ELSE i > n \/ cs[i] = "+"
        buildOk == plus <= n => BuildOk(SubSeq(cs, plus + 1, n))
    IN IF preOk /\ restOk /\ buildOk
       THEN [ok |-> TRUE, major |-> major, minor |-> minor, patch |-> patch, pre |-> pre]
       ELSE NotSemver

\* semver.parse: vMAJOR[.MINOR[.PATCH[-PRERELEASE][+BUILD]]]
Parse(cs) ==
    LET n == Len(cs)
        e1 == DigitsEnd(cs, 2)
        e2 == DigitsEnd(cs, e1 + 1)
        e3 == DigitsEnd(cs, e2 + 1)
        zero == <<"0">>
    IN IF n = 0 \/ cs[1] # "v" \/ ~IntOk(cs, 2) THEN NotSemver
       ELSE IF e1 > n
            THEN [ok |-> TRUE, major |-> SubSeq(cs, 2, e1 - 1), minor |-> zero,
                  patch |-> zero, pre |-> <<>>]
       ELSE IF cs[e1] # "." \/ ~IntOk(cs, e1 + 1) THEN NotSemver
       ELSE IF e2 > n
            THEN [ok |-> TRUE, major |-> SubSeq(cs, 2, e1 - 1),
                  minor |-> SubSeq(cs, e1 + 1, e2 - 1), patch |-> zero, pre |-> <<>>]
       ELSE IF cs[e2] # "." \/ ~IntOk(cs, e2 + 1) THEN NotSemver
       ELSE ParseTail(cs, e3, SubSeq(cs, 2, e1 - 1), SubSeq(cs, e1 + 1, e2 - 1),
                      SubSeq(cs, e2 + 1, e3 - 1))

\* semver.IsValid
IsValid(v) == Parse(Chars(v)).ok

\* semver.Major: the major version prefix, "v1" for "v1.2.0", "" if invalid
Major(v) == IF IsValid(v) THEN <<"v">> \o Parse(Chars(v)).major ELSE <<>>

\* compareInt: decimal strings without leading zeros
CompareInt(x, y) ==
    IF x = y THEN 0
    ELSE IF Len(x) < Len(y) THEN -1
    ELSE IF Len(x) > Len(y) THEN 1
    ELSE CompareChars(x, y)

\* one prerelease identifier against another
CompareIdent(dx, dy) ==
    IF dx = dy THEN 0
    ELSE IF IsNum(dx) # IsNum(dy) THEN (IF IsNum(dx) THEN -1 ELSE 1)
    ELSE IF IsNum(dx) THEN CompareInt(dx, dy)
    ELSE CompareChars(dx, dy)

RECURSIVE CompareIdents(_, _)
CompareIdents(xs, ys) ==
    IF xs = <<>> /\ ys = <<>> THEN 0
    ELSE IF xs = <<>> THEN -1
    ELSE IF ys = <<>> THEN 1
    ELSE IF CompareIdent(Head(xs), Head(ys)) # 0 THEN CompareIdent(Head(xs), Head(ys))
    ELSE CompareIdents(Tail(xs), Tail(ys))

\* comparePrerelease: no prerelease is newer than any prerelease
ComparePrerelease(x, y) ==
    IF x = y THEN 0
    ELSE IF x = <<>> THEN 1
    ELSE IF y = <<>> THEN -1
    ELSE CompareIdents(Idents(x), Idents(y))

\* semver.Compare: an invalid version is older than any valid one
Compare(v, w) ==
    LET pv == Parse(Chars(v))
        pw == Parse(Chars(w))
    IN IF ~pv.ok /\ ~pw.ok THEN 0
       ELSE IF ~pv.ok THEN -1
       ELSE IF ~pw.ok THEN 1
       ELSE IF CompareInt(pv.major, pw.major) # 0 THEN CompareInt(pv.major, pw.major)
       ELSE IF CompareInt(pv.minor, pw.minor) # 0 THEN CompareInt(pv.minor, pw.minor)
       ELSE IF CompareInt(pv.patch, pw.patch) # 0 THEN CompareInt(pv.patch, pw.patch)
       ELSE ComparePrerelease(pv.pre, pw.pre)

\* compareVersion of semver.Sort: Compare, then strings.Compare
CompareVersion(a, b) ==
    IF Compare(a, b) # 0 THEN Compare(a, b) ELSE CompareChars(Chars(a), Chars(b))

(***************************************************************************)
(* The selection of upgrade candidates.                                    *)
(***************************************************************************)
\* a test that does not count the current version itself
isUpgradeCandidateAlways(currentVersion, candidateVersion) == TRUE

isUpgradeCandidateStrict(currentVersion, candidateVersion) ==
    IF IsValid(currentVersion) /\ IsValid(candidateVersion)
    THEN Compare(currentVersion, candidateVersion) < 0
    ELSE IsValid(candidateVersion)

\* isUpgradeCandidate: the candidate is equal to or newer than the current
\* version; any semver is newer than a version that is not semver
isUpgradeCandidate(currentVersion, candidateVersion) ==
    IF IsValid(currentVersion) /\ IsValid(candidateVersion)
    THEN Compare(currentVersion, candidateVersion) <= 0
    ELSE IsValid(candidateVersion)

\* a choice that keeps the first of two equal versions
chooseNewestReleaseKeepingFirst(a, b) ==
    IF Compare(a.Version, b.Version) >= 0 THEN a ELSE b

\* chooseNewestRelease: whichever release is newer, the second on a tie
chooseNewestRelease(a, b) ==
    IF Compare(a.Version, b.Version) = 1 THEN a ELSE b

(***************************************************************************)
(* The rewrite of a workflow file.                                         *)
(***************************************************************************)
\* a strategy that pins a candidate whether or not it was resolved
chooseUpgradeNoFallback(step, pinMode) ==
    CASE pinMode = ModeCompat -> step.UpgradeCandidates.LatestCompatible
      [] pinMode = ModeLatest -> step.UpgradeCandidates.Latest
      [] pinMode = ModeCurrent -> step.Release

\* chooseUpgrade: the release to pin for the step under the mode; a
\* candidate that was not resolved defaults to the current release
chooseUpgrade(step, pinMode) ==
    CASE pinMode = ModeCompat ->
            IF Exists(step.UpgradeCandidates.LatestCompatible)
            THEN step.UpgradeCandidates.LatestCompatible
            ELSE step.Release
      [] pinMode = ModeLatest ->
            IF Exists(step.UpgradeCandidates.Latest)
            THEN step.UpgradeCandidates.Latest
            ELSE step.Release
      [] pinMode = ModeCurrent -> step.Release

\* A line as scanLinesWithEndings yields it: the text before the first
\* "uses:", whether "uses:" occurs, the text after it, and the line ending.
Line(before, found, rest, eol) ==
    [before |-> before, found |-> found, rest |-> rest, eol |-> eol]

\* the text of a line
Text(l) == l.before \o (IF l.found THEN "uses:" \o l.rest ELSE "") \o l.eol

\* matchEOL: the \n or \r\n the line ends with, if any
matchEOL(l) == l.eol

\* a hint that always names the original ref
VersionHintRefOnly(step, pin) == " # ref:" \o step.Ref

\* the version hint appended as a comment
VersionHint(step, pin) ==
    IF pin.Version # "" THEN " # " \o pin.Version
    ELSE IF step.Ref # pin.CommitHash THEN " # ref:" \o step.Ref
    ELSE ""

\* a rewrite that drops the line of a step it cannot pin
RewriteLineDropping(l, steps, pinMode) ==
    IF steps = {} THEN [out |-> Text(l), err |-> FALSE]
    ELSE LET step == CHOOSE st \in steps : TRUE
             pin == chooseUpgrade(step, pinMode)
         IN IF ~Exists(pin) THEN [out |-> "", err |-> FALSE]
            ELSE IF ~l.found THEN [out |-> "", err |-> TRUE]
            ELSE [out |-> l.before \o "uses: " \o step.Name \o "@" \o pin.CommitHash
                            \o VersionHint(step, pin) \o matchEOL(l),
                  err |-> FALSE]

\* the body of the line loop of rewriteWorkflows: steps holds the step found
\* at the line's number, if there is one
RewriteLine(l, steps, pinMode) ==
    IF steps = {} THEN [out |-> Text(l), err |-> FALSE]
    ELSE LET step == CHOOSE st \in steps : TRUE
             pin == chooseUpgrade(step, pinMode)
         IN IF ~Exists(pin) THEN [out |-> Text(l), err |-> FALSE]
            ELSE IF ~l.found THEN [out |-> "", err |-> TRUE]
            ELSE [out |-> l.before \o "uses: " \o step.Name \o "@" \o pin.CommitHash
                            \o VersionHint(step, pin) \o matchEOL(l),
                  err |-> FALSE]

\* the line loop over a file: lines are numbered from 0, steps are looked up
\* by line number; the first error ends the rewrite and nothing is written
RECURSIVE RewriteLines(_, _, _, _)
RewriteLines(lines, lineNum, stepsByLine, pinMode) ==
    IF lineNum >= Len(lines) THEN [out |-> <<>>, err |-> FALSE]
    ELSE LET here == RewriteLine(lines[lineNum + 1], stepsByLine[lineNum], pinMode)
             more == RewriteLines(lines, lineNum + 1, stepsByLine, pinMode)
         IN IF here.err \/ more.err THEN [out |-> <<>>, err |-> TRUE]
            ELSE [out |-> <<here.out>> \o more.out, err |-> FALSE]

(***************************************************************************)
(* State.                                                                  *)
(***************************************************************************)
VARIABLES
    jobs,          \* the worker count given to newEngine
    strict,        \* Engine.strict
    parallelism,   \* Engine.parallelism
    mode,          \* the PinMode given to Pin
    remote,        \* the host's failure scenario
    root,          \* Engine.root : workflow key -> sequence of steps
    cache,         \* the three Cache.cache maps, by cache name
    mu,            \* the three Cache.mu, by cache name: 0 or the holding task
    calls,         \* per cache and key, how often the thunk was invoked
    got,           \* per task and cache, the pair Cache.Do returned to it
    tasks,         \* per step (flattened index): the state of its task
    dpc,           \* position of resolveSteps
    idx,           \* flattened index of the step the dispatch loop is at
    semCur,        \* semaphore.Weighted.cur
    ctxErr,        \* ctx.Err() of the errgroup context: "" while not done
    ctxCause,      \* who cancelled the context: "", "external" or "group"
    gErr,          \* errgroup.Group.err
    result,        \* the error resolveSteps returned
    diagnostics,   \* ProgressLogger.diagnostics : workflow key -> records
    recorded,      \* every record addDiagnostic has appended since the pass began
    shown,         \* diagnostics rendered by ShowDiagnistics
    pinPc,         \* position of Engine.Pin
    pinErr,        \* the error Pin returned
    written,       \* workflow files replaced by rewriteWorkflows
    call,          \* the library function last called on its own: arguments and result
    releaseHost,   \* the releases of repository o/a as the host pages them
    computed,      \* per (repository, version): the pages each run of the selector requested
    rets           \* the calls of GetUpgradeCandidates that have returned

config == <<jobs, strict, parallelism, mode, remote>>
cacheVars == <<cache, mu, calls>>
groupVars == <<dpc, idx, semCur, ctxErr, ctxCause, gErr, result>>
pinVars == <<pinPc, pinErr, written>>
engineVars ==
    <<config, root, cacheVars, got, tasks, groupVars, diagnostics, recorded, shown, pinVars>>
selVars == <<releaseHost, computed, rets>>
libVars == <<call, selVars>>
vars == <<engineVars, libVars>>

(***************************************************************************)
(* Helpers over the root.                                                  *)
(***************************************************************************)
\* the steps in dispatch order: workflows by sorted key, steps in file order
Flat(r) ==
    LET a == Len(r[workflowKeys[1]])
        b == Len(r[workflowKeys[2]])
    IN [k \in 1..(a + b) |->
          IF k <= a THEN <<workflowKeys[1], k>> ELSE <<workflowKeys[2], k - a>>]

\* Root.StepCount
StepCount == Len(Flat(root))

StepIds == 1..StepCount

WorkflowOf(i) == Flat(root)[i][1]

StepAt(i) == root[Flat(root)[i][1]][Flat(root)[i][2]]

\* a pass that looks for upgrades in every mode
fetchUpgradesAlways == TRUE

\* fetchUpgrades := mode != ModeCurrent
fetchUpgrades == mode # ModeCurrent

\* a closure in which every task shares the pointer to the first step
TargetShared(i) == Flat(root)[1]

\* step := &workflow.Steps[j] : the step the task of index i was given, as
\* (workflow key, position in the workflow's Steps)
Target(i) == Flat(root)[i]

\* a task that works on a copy of its step
SetReleaseOnCopy(i, rel) == root

\* step.Action.Release = Release{...}, through the pointer into the root
SetRelease(i, rel) == [root EXCEPT ![Target(i)[1]][Target(i)[2]].Release = rel]

\* step.Action.UpgradeCandidates = candidates, through the pointer into the root
SetCandidates(i, cands) ==
    [root EXCEPT ![Target(i)[1]][Target(i)[2]].UpgradeCandidates = cands]

(***************************************************************************)
(* newEngine: the worker count is stored as it is given.                   *)
(***************************************************************************)
newEngine(workers, strictOpt) == [parallelism |-> workers, strict |-> strictOpt]

(***************************************************************************)
(* Cache.  An entry is the stored (value, error) pair of one key.          *)
(***************************************************************************)
CacheNames == {"refCache", "versionCache", "upgradeCache"}

\* a key of the repository alone
cacheKeyByRepo(a, b) == a

\* cacheKey: strings.Join(s, "/")
cacheKey(a, b) == a \o "/" \o b

Names == {"o/a", "o/b"}
Params == {"v1", "main", "c1", "c3", "c4", "v1.2.0", "v1.0.0"}
Keys == {cacheKey(n, p) : n \in Names, p \in Params}

\* a lookup that never finds the key
FoundNever(c, key) == FALSE

\* entry, found := c.cache[key]
Found(c, key) == \E en \in cache[c] : en.key = key

Entry(c, key) == CHOOSE en \in cache[c] : en.key = key

\* a store that keeps successful results only
StoreValuesOnly(c, key, out) ==
    IF out.err # NoErr THEN cache[c]
    ELSE {en \in cache[c] : en.key # key} \cup
         {[key |-> key, val |-> out.val, err |-> out.err]}

\* c.cache[key] = entry[V]{val, err}
Store(c, key, out) ==
    {en \in cache[c] : en.key # key} \cup {[key |-> key, val |-> out.val, err |-> out.err]}

\* a cache without its mutex
LockedNever(c) == FALSE

\* c.mu is held by some caller
Locked(c) == mu[c] # 0

(***************************************************************************)
(* The thunks of the three cached resolver calls, as answered by the host. *)
(***************************************************************************)
Failure(op, canceled, cause) ==
    [step |-> 0, op |-> op, isCanceled |-> canceled, cause |-> cause]

\* doGetCommitHashForRef: every failed request is swallowed, the error
\* returned never wraps the request's error
doGetCommitHashForRef(name, ref) ==
    IF <<name, ref>> \in remote.noRef \/ RemoteCommit(name, ref) = ""
    THEN [val |-> "", err |-> Failure("ref", FALSE, "remote")]
    ELSE [val |-> RemoteCommit(name, ref), err |-> NoErr]

\* doGetVersionTagsForHash
doGetVersionTagsForHash(name, commit) ==
    IF <<name, commit>> \in remote.tagErr
    THEN [val |-> <<>>, err |-> Failure("tags", FALSE, "remote")]
    ELSE [val |-> RemoteTags(name, commit), err |-> NoErr]

\* doGetUpgradeCandidates
doGetUpgradeCandidates(name, version) ==
    IF <<name, version>> \in remote.upErr
    THEN [val |-> NoCandidates, err |-> Failure("upgrade", FALSE, "remote")]
    ELSE [val |-> RemoteCandidates(name, version), err |-> NoErr]

\* what a thunk returns when its requests fail on the done context: the
\* ref lookup hides the request error, the two GraphQL lookups wrap it
CtxOutcome(c) ==
    CASE c = "refCache" -> [val |-> "", err |-> Failure("ref", FALSE, "ctx")]
      [] c = "versionCache" ->
            [val |-> <<>>, err |-> Failure("tags", ctxErr = "Canceled", "ctx")]
      [] c = "upgradeCache" ->
            [val |-> NoCandidates, err |-> Failure("upgrade", ctxErr = "Canceled", "ctx")]

(***************************************************************************)
(* Per-task view of the call it is about to make.                          *)
(***************************************************************************)
CallPcs == {"ref", "tags", "up"}

CacheAt(pc) ==
    CASE pc \in {"ref", "ref_call"} -> "refCache"
      [] pc \in {"tags", "tags_call"} -> "versionCache"
      [] pc \in {"up", "up_call"} -> "upgradeCache"

\* the key the task's next (or current) call uses
KeyOf(i) ==
    LET c == CacheAt(tasks[i].pc) IN
    CASE c = "refCache" -> cacheKey(StepAt(i).Name, StepAt(i).Ref)
      [] c = "versionCache" -> cacheKey(StepAt(i).Name, tasks[i].commit)
      [] c = "upgradeCache" -> cacheKey(StepAt(i).Name, StepAt(i).Release.Version)

\* the thunk of the task's call
Thunk(i) ==
    LET c == CacheAt(tasks[i].pc) IN
    CASE c = "refCache" -> doGetCommitHashForRef(StepAt(i).Name, StepAt(i).Ref)
      [] c = "versionCache" -> doGetVersionTagsForHash(StepAt(i).Name, tasks[i].commit)
      [] c = "upgradeCache" ->
            doGetUpgradeCandidates(StepAt(i).Name, StepAt(i).Release.Version)

\* the results the thunk of task i may produce when it returns now
Outcomes(i) ==
    LET c == CacheAt(tasks[i].pc) IN
    IF tasks[i].ctxAtStart THEN {CtxOutcome(c)}
    ELSE IF ctxErr # "" THEN {CtxOutcome(c), Thunk(i)}
    ELSE {Thunk(i)}

(***************************************************************************)
(* Init: the engine has been constructed over a scanned root; Pin has      *)
(* called resolveSteps, which is about to dispatch the first step.         *)
(***************************************************************************)
IdleTask == [pc |-> "idle", commit |-> "", ctxAtStart |-> FALSE, err |-> NoErr]

\* no library function has been called on its own
NoCall == [fn |-> ""]

\* no release list is being read
NoHost == [releases |-> <<>>, size |-> 1, failAt |-> 0]

NeverComputed == [p \in {"o/a"} \X {"v1.0.0", "v2.0.0", "main"} |-> <<>>]

SelUnused == releaseHost = NoHost /\ computed = NeverComputed /\ rets = {}

\* the state of the library harness while the engine runs
LibUnused == call = NoCall /\ SelUnused

Init ==
    /\ \E w \in -1..MaxWorkers, s \in BOOLEAN :
          /\ jobs = w
          /\ parallelism = newEngine(w, s).parallelism
          /\ strict = newEngine(w, s).strict
    /\ mode \in PinModes
    /\ remote \in Remotes
    /\ root \in Roots
    /\ cache = [c \in CacheNames |-> {}]
    /\ mu = [c \in CacheNames |-> 0]
    /\ calls = [c \in CacheNames |-> [k \in Keys |-> 0]]
    /\ got = [i \in 1..Len(Flat(root)) |-> [c \in CacheNames |-> {}]]
    /\ tasks = [i \in 1..Len(Flat(root)) |-> IdleTask]
    /\ dpc = IF Len(Flat(root)) = 0 THEN "wait" ELSE "acquire"
    /\ idx = 1
    /\ semCur = 0
    /\ ctxErr = ""
    /\ ctxCause = ""
    /\ gErr = NoErr
    /\ result = NoErr
    /\ diagnostics = [w \in {workflowKeys[k] : k \in 1..Len(workflowKeys)} |-> <<>>]
    /\ recorded = diagnostics
    /\ shown = <<>>
    /\ pinPc = "resolve"
    /\ pinErr = NoErr
    /\ written = {}
    /\ LibUnused

(***************************************************************************)
(* ProgressLogger.                                                         *)
(***************************************************************************)
\* addDiagnostic: append a record under the workflow's path
addDiagnostic(level, i, msg) ==
    [diagnostics EXCEPT ![WorkflowOf(i)] =
        Append(@, [Level |-> level, Step |-> i, Msg |-> msg])]

\* the history of the records: it grows by what the step appends to the map
KeepRecord ==
    recorded' =
        [w \in DOMAIN recorded |->
            recorded[w] \o SubSeq(diagnostics'[w], Len(diagnostics[w]) + 1,
                                  Len(diagnostics'[w]))]

\* FinishSection: pl.diagnostics = nil, the map is empty again
FinishSection(d) == [w \in DOMAIN d |-> <<>>]

\* ShowDiagnistics renders the records grouped by sorted workflow key
Rendered(d) == d[workflowKeys[1]] \o d[workflowKeys[2]]

(***************************************************************************)
(* The caller's context.                                                   *)
(***************************************************************************)
\* the caller cancels the context it gave to Pin, or its deadline passes
ExternalCancel ==
    /\ ctxErr = ""
    /\ pinPc = "resolve"
    /\ \E e \in {"Canceled", "DeadlineExceeded"} : ctxErr' = e
    /\ ctxCause' = "external"
    /\ UNCHANGED <<libVars, config, got, root, cacheVars, tasks, dpc, idx, semCur, gErr, result,
                   diagnostics, shown, pinVars>>
    /\ KeepRecord

(***************************************************************************)
(* Engine.resolveSteps: the dispatch loop.                                 *)
(***************************************************************************)
\* move on to the next step, or to g.Wait() after the last one
Advance ==
    /\ idx' = idx + 1
    /\ dpc' = IF idx + 1 > StepCount THEN "wait" ELSE "acquire"

\* an Acquire that ignores the context
CanAcquireIgnoringCtx == parallelism - semCur >= 1

\* an Acquire that ignores the semaphore's size
CanAcquireUnbounded == ctxErr = ""

\* semaphore.Weighted.Acquire(ctx, 1) can return nil
CanAcquire == ctxErr = "" /\ parallelism - semCur >= 1

\* sem.Acquire(ctx, 1) returns nil
Acquire ==
    /\ dpc = "acquire"
    /\ CanAcquire
    /\ semCur' = semCur + 1
    /\ dpc' = "go"
    /\ UNCHANGED <<libVars, config, got, root, cacheVars, tasks, idx, ctxErr, ctxCause, gErr, result,
                   diagnostics, shown, pinVars>>
    /\ KeepRecord

\* a dispatch loop that treats every Acquire error alike
AcquireErrNeverCanceled == FALSE

\* errors.Is(err, context.Canceled) for the error of a failed Acquire
AcquireErrIsCanceled == ctxErr = "Canceled"

\* sem.Acquire fails with context.Canceled: continue with the next step
AcquireCanceled ==
    /\ dpc = "acquire"
    /\ ctxErr # ""
    /\ AcquireErrIsCanceled
    /\ Advance
    /\ UNCHANGED <<libVars, config, got, root, cacheVars, tasks, semCur, ctxErr, ctxCause, gErr, result,
                   diagnostics, shown, pinVars>>
    /\ KeepRecord

\* sem.Acquire fails with another error: PhaseError, then return (strict) or continue
AcquireFailed ==
    /\ dpc = "acquire"
    /\ ctxErr # ""
    /\ ~AcquireErrIsCanceled
    /\ diagnostics' = addDiagnostic("ERROR", idx, "acquire")
    /\ IF strict
       THEN /\ result' = [step |-> idx, op |-> "acquire", isCanceled |-> FALSE, cause |-> "ctx"]
            /\ dpc' = "returned"
            /\ idx' = idx
       ELSE /\ Advance
            /\ result' = result
    /\ UNCHANGED <<libVars, config, got, root, cacheVars, tasks, semCur, ctxErr, ctxCause, gErr,
                   shown, pinVars>>
    /\ KeepRecord

\* g.Go(func() error {...}): the task of the step starts
Go ==
    /\ dpc = "go"
    /\ tasks' = [tasks EXCEPT ![idx].pc = "ref"]
    /\ Advance
    /\ UNCHANGED <<libVars, config, got, root, cacheVars, semCur, ctxErr, ctxCause, gErr, result,
                   diagnostics, shown, pinVars>>
    /\ KeepRecord

\* g.Wait() returns once every started task has returned; it cancels the
\* group's context and yields the first error.  On success FinishSection
\* empties the logger's map and ShowDiagnistics then renders the map.
Wait ==
    /\ dpc = "wait"
    /\ \A i \in StepIds : tasks[i].pc \in {"idle", "done"}
    /\ IF ctxErr = ""
       THEN ctxErr' = "Canceled" /\ ctxCause' = "wait"
       ELSE UNCHANGED <<ctxErr, ctxCause>>
    /\ result' = gErr
    /\ diagnostics' = IF gErr = NoErr THEN FinishSection(diagnostics) ELSE diagnostics
    /\ shown' = IF gErr = NoErr THEN Rendered(diagnostics') ELSE shown
    /\ dpc' = "returned"
    /\ UNCHANGED <<libVars, config, got, root, cacheVars, tasks, idx, semCur, gErr, pinVars>>
    /\ KeepRecord

(***************************************************************************)
(* Engine.resolveStep: what the task does with the result of each call.    *)
(***************************************************************************)
\* the call's error as returned by resolveStep for step i
Wrap(i, err) == [err EXCEPT !.step = i]

\* a task that goes on to the tag lookup whatever the ref lookup returned
AfterRefUnchecked(i, out) ==
    /\ tasks' = [tasks EXCEPT ![i] =
          [@ EXCEPT !.pc = "tags", !.commit = out.val, !.ctxAtStart = FALSE]]
    /\ UNCHANGED <<root, diagnostics>>

\* 1. ref -> commit
AfterRef(i, out) ==
    /\ tasks' = [tasks EXCEPT ![i] =
          IF out.err # NoErr
          THEN [@ EXCEPT !.pc = "ret", !.err = Wrap(i, out.err), !.ctxAtStart = FALSE]
          ELSE [@ EXCEPT !.pc = "tags", !.commit = out.val, !.ctxAtStart = FALSE]]
    /\ UNCHANGED <<root, diagnostics>>

\* a choice of the last tag instead of the first
BestVersionLast(versions) == IF Len(versions) > 0 THEN versions[Len(versions)] ELSE ""

\* the best version among the tags of the commit: the first, or none
BestVersion(versions) == IF Len(versions) > 0 THEN versions[1] ELSE ""

\* a task that publishes the commit before the tag lookup is known to succeed
AfterTagsPublishing(i, out) ==
    /\ root' = SetRelease(i, [Version |-> BestVersion(out.val),
                              CommitHash |-> tasks[i].commit])
    /\ tasks' = [tasks EXCEPT ![i] =
          IF out.err # NoErr
          THEN [@ EXCEPT !.pc = "ret", !.err = Wrap(i, out.err), !.ctxAtStart = FALSE]
          ELSE [@ EXCEPT !.pc = IF fetchUpgrades THEN "up" ELSE "ret",
                         !.ctxAtStart = FALSE]]
    /\ UNCHANGED diagnostics

\* 2. commit -> version tags; on success the step's release is written
AfterTags(i, out) ==
    IF out.err # NoErr
    THEN /\ tasks' = [tasks EXCEPT ![i] =
                [@ EXCEPT !.pc = "ret", !.err = Wrap(i, out.err), !.ctxAtStart = FALSE]]
         /\ UNCHANGED <<root, diagnostics>>
    ELSE /\ root' = SetRelease(i, [Version |-> BestVersion(out.val),
                                   CommitHash |-> tasks[i].commit])
         /\ tasks' = [tasks EXCEPT ![i] =
                [@ EXCEPT !.pc = IF fetchUpgrades THEN "up" ELSE "ret",
                          !.ctxAtStart = FALSE]]
         /\ UNCHANGED diagnostics

\* a task for which a failed candidate lookup is the step's error
AfterUpFatal(i, out) ==
    /\ diagnostics' =
          IF out.err # NoErr THEN addDiagnostic("ERROR", i, "upgrade")
          ELSE IF out.val = NoCandidates THEN addDiagnostic("WARN", i, "no candidates")
          ELSE diagnostics
    /\ root' = SetCandidates(i, out.val)
    /\ tasks' = [tasks EXCEPT ![i] =
          [@ EXCEPT !.pc = "ret", !.err = Wrap(i, out.err), !.ctxAtStart = FALSE]]

\* 3. upgrade candidates: a failure is a diagnostic, never the step's error
AfterUp(i, out) ==
    /\ diagnostics' =
          IF out.err # NoErr THEN addDiagnostic("ERROR", i, "upgrade")
          ELSE IF out.val = NoCandidates THEN addDiagnostic("WARN", i, "no candidates")
          ELSE diagnostics
    /\ root' = SetCandidates(i, out.val)
    /\ tasks' = [tasks EXCEPT ![i] = [@ EXCEPT !.pc = "ret", !.ctxAtStart = FALSE]]

\* continue resolveStep after the call the task was at returned out
Continue(i, out) ==
    LET c == CacheAt(tasks[i].pc) IN
    CASE c = "refCache" -> AfterRef(i, out)
      [] c = "versionCache" -> AfterTags(i, out)
      [] c = "upgradeCache" -> AfterUp(i, out)

\* a GetUpgradeCandidates without the early return
UsesCacheAlways(i) == TRUE

\* GetUpgradeCandidates goes through the cache only for a known version
UsesCache(i) == tasks[i].pc = "up" => StepAt(i).Release.Version # ""

(***************************************************************************)
(* Cache.Do, as called by the task of step i.                              *)
(***************************************************************************)
\* Do finds the key: the stored pair is returned, the thunk is not invoked
DoHit(i) ==
    /\ tasks[i].pc \in CallPcs
    /\ UsesCache(i)
    /\ ~Locked(CacheAt(tasks[i].pc))
    /\ Found(CacheAt(tasks[i].pc), KeyOf(i))
    /\ LET en == Entry(CacheAt(tasks[i].pc), KeyOf(i))
       IN /\ Continue(i, [val |-> en.val, err |-> en.err])
          /\ got' = [got EXCEPT ![i][CacheAt(tasks[i].pc)] = {en}]
    /\ UNCHANGED <<libVars, config, cacheVars, groupVars, shown, pinVars>>
    /\ KeepRecord

\* Do misses: the thunk is invoked with the cache's mutex held
DoMiss(i) ==
    /\ tasks[i].pc \in CallPcs
    /\ UsesCache(i)
    /\ ~Locked(CacheAt(tasks[i].pc))
    /\ ~Found(CacheAt(tasks[i].pc), KeyOf(i))
    /\ mu' = [mu EXCEPT ![CacheAt(tasks[i].pc)] = i]
    /\ calls' = [calls EXCEPT ![CacheAt(tasks[i].pc)][KeyOf(i)] = @ + 1]
    /\ tasks' = [tasks EXCEPT ![i] =
          [@ EXCEPT !.pc = CASE tasks[i].pc = "ref" -> "ref_call"
                            [] tasks[i].pc = "tags" -> "tags_call"
                            [] tasks[i].pc = "up" -> "up_call",
                    !.ctxAtStart = (ctxErr # "")]]
    /\ UNCHANGED <<libVars, config, got, root, cache, groupVars, diagnostics, shown, pinVars>>
    /\ KeepRecord

\* the thunk returns: the pair is stored, the mutex released, the pair returned
DoReturn(i) ==
    /\ tasks[i].pc \in {"ref_call", "tags_call", "up_call"}
    /\ \E out \in Outcomes(i) :
          /\ cache' = [cache EXCEPT ![CacheAt(tasks[i].pc)] =
                           Store(CacheAt(tasks[i].pc), KeyOf(i), out)]
          /\ Continue(i, out)
          /\ got' = [got EXCEPT ![i][CacheAt(tasks[i].pc)] =
                         {[key |-> KeyOf(i), val |-> out.val, err |-> out.err]}]
    /\ mu' = [mu EXCEPT ![CacheAt(tasks[i].pc)] = 0]
    /\ UNCHANGED <<libVars, config, calls, groupVars, shown, pinVars>>
    /\ KeepRecord

\* GetUpgradeCandidates with no version resolved: empty candidates, no error
UpNoVersion(i) ==
    /\ tasks[i].pc = "up"
    /\ ~UsesCache(i)
    /\ AfterUp(i, [val |-> NoCandidates, err |-> NoErr])
    /\ UNCHANGED <<libVars, config, got, cacheVars, groupVars, shown, pinVars>>
    /\ KeepRecord

(***************************************************************************)
(* The task's closure and the errgroup's wrapper around it.                *)
(***************************************************************************)
\* a closure that returns the error in lenient mode too
ClosureResultAlways(err) == err

\* what the closure returns for resolveStep's error
ClosureResult(err) == IF strict THEN err ELSE NoErr

\* resolveStep has returned: PhaseError on failure, then the deferred
\* sem.Release(1) runs as the closure returns
TaskFinish(i) ==
    /\ tasks[i].pc = "ret"
    /\ diagnostics' = IF tasks[i].err # NoErr
                      THEN addDiagnostic("ERROR", i, tasks[i].err.op)
                      ELSE diagnostics
    /\ semCur' = semCur - 1
    /\ tasks' = [tasks EXCEPT ![i] =
          [@ EXCEPT !.pc = "released", !.err = ClosureResult(tasks[i].err)]]
    /\ UNCHANGED <<libVars, config, got, root, cacheVars, dpc, idx, ctxErr, ctxCause, gErr, result,
                   shown, pinVars>>
    /\ KeepRecord

\* errgroup: the first non-nil error is kept and cancels the context
TaskExit(i) ==
    /\ tasks[i].pc = "released"
    /\ IF tasks[i].err # NoErr /\ gErr = NoErr
       THEN /\ gErr' = tasks[i].err
            /\ IF ctxErr = ""
               THEN ctxErr' = "Canceled" /\ ctxCause' = "group"
               ELSE UNCHANGED <<ctxErr, ctxCause>>
       ELSE UNCHANGED <<gErr, ctxErr, ctxCause>>
    /\ tasks' = [tasks EXCEPT ![i].pc = "done"]
    /\ UNCHANGED <<libVars, config, got, root, cacheVars, dpc, idx, semCur, result, diagnostics,
                   shown, pinVars>>
    /\ KeepRecord

(***************************************************************************)
(* Engine.Pin.                                                             *)
(***************************************************************************)
\* a Pin that ignores the error of resolveSteps
ResolveFailedIgnored == FALSE

\* if err := e.resolveSteps(ctx, mode); err != nil
ResolveFailed == result # NoErr

\* resolveSteps has returned: its error ends Pin, success starts the rewrite
PinResolved ==
    /\ pinPc = "resolve"
    /\ dpc = "returned"
    /\ IF ResolveFailed
       THEN pinErr' = result /\ pinPc' = "done"
       ELSE pinErr' = pinErr /\ pinPc' = "rewrite"
    /\ UNCHANGED <<libVars, config, got, root, cacheVars, tasks, groupVars, diagnostics, shown, written>>
    /\ KeepRecord

\* rewriteWorkflows replaces one workflow file, or fails to open it
Rewrite(w) ==
    /\ pinPc = "rewrite"
    /\ w \notin written
    /\ \E ok \in BOOLEAN :
          IF ok
          THEN /\ written' = written \cup {w}
               /\ pinPc' = IF written' = DOMAIN root THEN "done" ELSE "rewrite"
               /\ pinErr' = pinErr
          ELSE /\ written' = written
               /\ pinPc' = "done"
               /\ pinErr' = [step |-> 0, op |-> "rewrite", isCanceled |-> FALSE,
                             cause |-> "io"]
    /\ UNCHANGED <<libVars, config, got, root, cacheVars, tasks, groupVars, diagnostics, shown>>
    /\ KeepRecord

(***************************************************************************)
(* Specification.                                                          *)
(***************************************************************************)
Next ==
    \/ ExternalCancel
    \/ Acquire
    \/ AcquireCanceled
    \/ AcquireFailed
    \/ Go
    \/ Wait
    \/ \E i \in StepIds : DoHit(i)
    \/ \E i \in StepIds : DoMiss(i)
    \/ \E i \in StepIds : DoReturn(i)
    \/ \E i \in StepIds : UpNoVersion(i)
    \/ \E i \in StepIds : TaskFinish(i)
    \/ \E i \in StepIds : TaskExit(i)
    \/ PinResolved
    \/ \E w \in DOMAIN root : Rewrite(w)

Spec == Init /\ [][Next]_vars

TypeOK ==
    /\ semCur \in Int
    /\ dpc \in {"acquire", "go", "wait", "returned"}
    /\ pinPc \in {"resolve", "rewrite", "done"}
    /\ \A i \in StepIds : tasks[i].pc \in
          {"idle", "ref", "ref_call", "tags", "tags_call", "up", "up_call",
           "ret", "released", "done"}

(***************************************************************************)
(* The library functions called on their own, each on inputs drawn from a  *)
(* small universe.  The engine is not running.                             *)
(***************************************************************************)
\* an engine over an empty root that never starts
EngineUnused ==
    /\ jobs = 1 /\ parallelism = 1 /\ strict = FALSE
    /\ mode = ModeCurrent
    /\ remote = [noRef |-> {}, tagErr |-> {}, upErr |-> {}]
    /\ root = [w \in {"a.yml", "b.yml"} |-> <<>>]
    /\ cache = [c \in CacheNames |-> {}]
    /\ mu = [c \in CacheNames |-> 0]
    /\ calls = [c \in CacheNames |-> [k \in Keys |-> 0]]
    /\ got = <<>>
    /\ tasks = <<>>
    /\ dpc = "wait"
    /\ idx = 1
    /\ semCur = 0
    /\ ctxErr = ""
    /\ ctxCause = ""
    /\ gErr = NoErr
    /\ result = NoErr
    /\ diagnostics = [w \in {"a.yml", "b.yml"} |-> <<>>]
    /\ recorded = diagnostics
    /\ shown = <<>>
    /\ pinPc = "resolve"
    /\ pinErr = NoErr
    /\ written = {}

LibInit == EngineUnused /\ LibUnused

\* version strings, valid and not
VersionStrings ==
    {"", "main", "bad", "1.0.0", "v01", "v1", "v1.0.0", "v1.0.1-prerelease", "v1.0.1",
     "v1.1.0", "v1.2.0", "v2.0.0", "v10.0.0"}

\* releases, the absent one among them
ReleaseArgs ==
    {NoRelease} \cup
    {[Version |-> v, CommitHash |-> h] :
        v \in {"", "main", "v1", "v1.0.0", "v1.2.0", "v2.0.0", "v10.0.0"},
        h \in {"abc", "def"}}

CallIsUpgradeCandidate ==
    /\ call = NoCall
    /\ \E a, b \in VersionStrings :
          call' = [fn |-> "isUpgradeCandidate", current |-> a, candidate |-> b,
                   ret |-> isUpgradeCandidate(a, b)]
    /\ UNCHANGED <<engineVars, selVars>>

CallChooseNewestRelease ==
    /\ call = NoCall
    /\ \E a, b \in ReleaseArgs :
          call' = [fn |-> "chooseNewestRelease", a |-> a, b |-> b,
                   ret |-> chooseNewestRelease(a, b)]
    /\ UNCHANGED <<engineVars, selVars>>

\* what a resolution pass can leave in a step
Resolutions ==
    LET cur == [Version |-> "v1.0.0", CommitHash |-> "differenthash"]
        latest == [Version |-> "v2.0.0", CommitHash |-> "aaa111"]
        compat == [Version |-> "v1.2.0", CommitHash |-> "bbb222"]
    IN { [Release |-> NoRelease, UpgradeCandidates |-> NoCandidates],
         [Release |-> cur, UpgradeCandidates |-> NoCandidates],
         [Release |-> cur,
          UpgradeCandidates |-> [Latest |-> latest, LatestCompatible |-> compat]],
         [Release |-> cur,
          UpgradeCandidates |-> [Latest |-> latest, LatestCompatible |-> NoRelease]],
         [Release |-> [Version |-> "", CommitHash |-> "abc123"],
          UpgradeCandidates |-> NoCandidates],
         [Release |-> [Version |-> "", CommitHash |-> "c4"],
          UpgradeCandidates |-> NoCandidates] }

\* a step of action o/a as the scan and a resolution pass leave it
StepArg(lineNum, ref, res) ==
    [LineNumber |-> lineNum, Name |-> "o/a", Ref |-> ref,
     Release |-> res.Release, UpgradeCandidates |-> res.UpgradeCandidates]

CallChooseUpgrade ==
    /\ call = NoCall
    /\ \E ref \in {"v1.0.0", "develop", "abc123"}, res \in Resolutions, m \in PinModes :
          call' = [fn |-> "chooseUpgrade", step |-> StepArg(0, ref, res), mode |-> m,
                   ret |-> chooseUpgrade(StepArg(0, ref, res), m)]
    /\ UNCHANGED <<engineVars, selVars>>

\* most lines of a workflow file rewritten in one call
MaxLines == 2

\* lines of a workflow file, with the ref the scan reads from each
LinePool ==
    { [line |-> Line("name: ci", FALSE, "", "\n"), ref |-> "v1.0.0"],
      [line |-> Line("      - ", TRUE, " o/a@v1.0.0", "\n"), ref |-> "v1.0.0"],
      [line |-> Line("        ", TRUE, " o/a@develop # old", "\r\n"), ref |-> "develop"],
      [line |-> Line("      - ", TRUE, "o/a@abc123", ""), ref |-> "abc123"] }

\* a line together with what the pass left in the step found on it, if any
ScannedLines ==
    {[line |-> pl.line, ref |-> pl.ref, res |-> rs] :
        pl \in LinePool,
        rs \in {{}} \cup {{r} : r \in Resolutions \ {rr \in Resolutions :
                   rr.UpgradeCandidates.Latest # NoRelease /\
                   rr.UpgradeCandidates.LatestCompatible = NoRelease}}}

WorkflowFiles == UNION {[1..n -> ScannedLines] : n \in 0..MaxLines}

\* stepsByLine: line number -> the step on that line, if any
stepsByLine(f) ==
    [k \in 0..(Len(f) - 1) |-> {StepArg(k, f[k + 1].ref, r) : r \in f[k + 1].res}]

CallRewriteWorkflows ==
    /\ call = NoCall
    /\ \E f \in WorkflowFiles, m \in PinModes :
          LET lines == [k \in 1..Len(f) |-> f[k].line]
              done == RewriteLines(lines, 0, stepsByLine(f), m)
          IN call' = [fn |-> "rewriteWorkflows", lines |-> lines,
                      steps |-> stepsByLine(f), mode |-> m,
                      out |-> done.out, err |-> done.err]
    /\ UNCHANGED <<engineVars, selVars>>

\* hexPattern: ^[A-Fa-f0-9]+$ (no string of the universe has capitals)
isHex(ref) ==
    /\ Chars(ref) # <<>>
    /\ \A k \in 1..Len(Chars(ref)) :
          IsDigit(Chars(ref)[k]) \/ Chars(ref)[k] \in {"a", "b", "c", "d", "e", "f"}

\* what the REST API of a repository answers about one ref: the commit and
\* the branch of that name ("" when the request fails), the tag reference
\* (type "" when the request fails) and the tag object behind it
RestHosts ==
    [commit : {"", "c1"}, branch : {"", "c2"},
     tagRef : {[type |-> "", sha |-> ""], [type |-> "commit", sha |-> "c3"],
               [type |-> "tag", sha |-> "t1"]},
     tagObject : {"", "c4", "t2"}]

\* doGetCommitHashForRef against a host: the hash returned, the error and
\* the requests sent, in order, each as <<path, ref or sha>>
CommitHashForRefTagFirst(host, ref) ==
    LET tryCommit == IF isHex(ref) THEN <<<<"commits", ref>>>> ELSE <<>>
    IN  IF isHex(ref) /\ host.commit # ""
        THEN [val |-> host.commit, err |-> "", reqs |-> tryCommit]
        ELSE IF host.tagRef.type = "commit"
        THEN [val |-> host.tagRef.sha, err |-> "",
              reqs |-> tryCommit \o <<<<"git/ref/tags", ref>>>>]
        ELSE IF host.branch # ""
        THEN [val |-> host.branch, err |-> "",
              reqs |-> tryCommit \o <<<<"git/ref/tags", ref>>, <<"git/ref/heads", ref>>>>]
        ELSE [val |-> "", err |-> "failed to resolve reference " \o ref,
              reqs |-> tryCommit \o <<<<"git/ref/tags", ref>>, <<"git/ref/heads", ref>>>>]

CommitHashForRef(host, ref) ==
    LET tryCommit == IF isHex(ref) THEN <<<<"commits", ref>>>> ELSE <<>>
        tryBranch == tryCommit \o <<<<"git/ref/heads", ref>>>>
        tryTag == tryBranch \o <<<<"git/ref/tags", ref>>>>
        tryTagObject == tryTag \o <<<<"git/tags", host.tagRef.sha>>>>
        failed == "failed to resolve reference " \o ref
    IN  IF isHex(ref) /\ host.commit # ""
        THEN [val |-> host.commit, err |-> "", reqs |-> tryCommit]
        ELSE IF host.branch # ""
        THEN [val |-> host.branch, err |-> "", reqs |-> tryBranch]
        ELSE IF host.tagRef.type = ""
        THEN [val |-> "", err |-> failed, reqs |-> tryTag]
        ELSE IF host.tagRef.type = "commit"
        THEN [val |-> host.tagRef.sha, err |-> "", reqs |-> tryTag]
        ELSE IF host.tagObject # ""
        THEN [val |-> host.tagObject, err |-> "", reqs |-> tryTagObject]
        ELSE [val |-> "", err |-> failed, reqs |-> tryTagObject]

CallGetCommitHashForRef ==
    /\ call = NoCall
    /\ \E host \in RestHosts, ref \in {"abc123", "bad", "main", "v1"} :
          LET r == CommitHashForRef(host, ref)
          IN call' = [fn |-> "GetCommitHashForRef", host |-> host, ref |-> ref,
                      ret |-> r.val, err |-> r.err, reqs |-> r.reqs]
    /\ UNCHANGED <<engineVars, selVars>>

\* most tags of a repository
MaxTags == 4

\* the pages a server cuts a list into: at least one, the last one short
Paginate(items, size) ==
    LET n == IF Len(items) = 0 THEN 1 ELSE (Len(items) + size - 1) \div size
    IN  [k \in 1..n |->
            SubSeq(items, (k - 1) * size + 1,
                   IF k * size < Len(items) THEN k * size ELSE Len(items))]

\* semver.Sort: ascending by compareVersion, a total order on distinct names
RECURSIVE Sort(_)
Sort(tags) ==
    IF tags = <<>> THEN <<>>
    ELSE LET least == CHOOSE k \in 1..Len(tags) :
                         \A j \in 1..Len(tags) : CompareVersion(tags[k], tags[j]) <= 0
         IN  <<tags[least]>> \o
             Sort([j \in 1..(Len(tags) - 1) |-> IF j < least THEN tags[j] ELSE tags[j + 1]])

\* slices.Reverse
ReverseNot(s) == s

Reverse(s) == [k \in 1..Len(s) |-> s[Len(s) + 1 - k]]

\* the tag references of a repository: lightweight tags point at a commit,
\* annotated tags at a tag object that points at a commit
TagNodes ==
    { [Name |-> "v1.0.1", Oid |-> "aaa", Inner |-> ""],
      [Name |-> "v1.0.1-prerelease", Oid |-> "t1", Inner |-> "aaa"],
      [Name |-> "v1.0.0", Oid |-> "aaa", Inner |-> ""],
      [Name |-> "v1", Oid |-> "t2", Inner |-> "aaa"],
      [Name |-> "v2.0.0", Oid |-> "bbb", Inner |-> ""],
      [Name |-> "1.0.0", Oid |-> "aaa", Inner |-> ""] }

\* the tags of a repository in the order the server lists them
TagLists ==
    {l \in UNION {[1..n -> TagNodes] : n \in 0..MaxTags} :
        \A j, k \in 1..Len(l) : j # k => l[j].Name # l[k].Name}

\* doGetVersionTagsForHash from page k on, the request for page failAt failing:
\* the tags returned, the error and the number of requests sent
RECURSIVE VersionTagsForHash(_, _, _, _, _)
VersionTagsForHash(pages, failAt, commitHash, k, tags) ==
    IF k = failAt THEN [val |-> <<>>, err |-> "graphql error", reqs |-> k]
    ELSE LET found == SelectSeq(pages[k], LAMBDA node :
                          /\ IsValid(node.Name)
                          /\ node.Oid = commitHash \/ node.Inner = commitHash)
             more == tags \o [j \in 1..Len(found) |-> found[j].Name]
         IN  IF k < Len(pages)
             THEN VersionTagsForHash(pages, failAt, commitHash, k + 1, more)
             ELSE [val |-> Reverse(Sort(more)), err |-> "", reqs |-> k]

CallGetVersionTagsForCommitHash ==
    /\ call = NoCall
    /\ \E l \in TagLists, size \in {1, 2}, commitHash \in {"aaa", "bbb"} :
          \E failAt \in 0..Len(Paginate(l, size)) :
             LET r == VersionTagsForHash(Paginate(l, size), failAt, commitHash, 1, <<>>)
             IN call' = [fn |-> "GetVersionTagsForCommitHash", nodes |-> l,
                         pages |-> Paginate(l, size), failAt |-> failAt,
                         commitHash |-> commitHash,
                         ret |-> r.val, err |-> r.err, reqs |-> r.reqs]
    /\ UNCHANGED <<engineVars, selVars>>

CallExists ==
    /\ call = NoCall
    /\ \E r \in ReleaseArgs \cup {[Version |-> "v1.0.0", CommitHash |-> ""]} :
          call' = [fn |-> "Exists", r |-> r, ret |-> Exists(r)]
    /\ UNCHANGED <<engineVars, selVars>>


(***************************************************************************)
(* The candidate selection: GetUpgradeCandidates called any number of      *)
(* times for repository o/a, whose releases the host lists in pages.       *)
(***************************************************************************)
\* most releases of a repository
MaxStream == 4

\* the releases of the repository as the GraphQL API describes them: the tag
\* of v1.2.0 is annotated
ReleaseNodes ==
    { [TagName |-> "v2.0.0", Oid |-> "aaa111", Inner |-> ""],
      [TagName |-> "v1.2.0", Oid |-> "t1", Inner |-> "bbb222"],
      [TagName |-> "v1.1.0", Oid |-> "ccc333", Inner |-> ""],
      [TagName |-> "v1.0.0", Oid |-> "ddd444", Inner |-> ""],
      [TagName |-> "bad", Oid |-> "eee555", Inner |-> ""] }

\* the releases in the order the host lists them
ReleaseLists ==
    {l \in UNION {[1..n -> ReleaseNodes] : n \in 0..MaxStream} :
        \A j, k \in 1..Len(l) : j # k => l[j] # l[k]}

\* a host: its releases, its page size and the page whose request fails, if any
ReleaseHosts ==
    UNION {{[releases |-> l, size |-> size, failAt |-> f] :
               f \in 0..Len(Paginate(l, size))} :
           l \in ReleaseLists, size \in {2, MaxStream}}

\* iterAllReleases: the Release of a node
ReleaseOf(node) ==
    [Version |-> node.TagName,
     CommitHash |-> IF node.Inner # "" THEN node.Inner ELSE node.Oid]

\* semver.Major(candidate.Version) == currentMajorVersion
SameMajorAlways(currentVersion, candidateVersion) == TRUE

SameMajor(currentVersion, candidateVersion) ==
    Major(candidateVersion) = Major(currentVersion)

\* doGetUpgradeCandidates over iterAllReleases, from release j of page k on:
\* the candidates, the error and the number of pages requested
\* an iterator that has fetched every page before it yields
RequestedAll(pages, k) == Len(pages)

\* the requests sent when the loop is left on page k: one for each page up to k
Requested(pages, k) == k

RECURSIVE UpgradeCandidatesFrom(_, _, _, _, _, _, _)
UpgradeCandidatesFrom(pages, failAt, currentRelease, k, j, latestRelease, latestCompatibleRelease) ==
    LET found == [val |-> [Latest |-> latestRelease,
                            LatestCompatible |-> latestCompatibleRelease],
                   err |-> NoErr, reqs |-> Requested(pages, k)]
    IN  IF j = 1 /\ k = failAt
        THEN [val |-> NoCandidates, err |-> Failure("upgrade", FALSE, "remote"),
              reqs |-> k]
        ELSE IF j > Len(pages[k])
        THEN IF k < Len(pages)
             THEN UpgradeCandidatesFrom(pages, failAt, currentRelease, k + 1, 1,
                                        latestRelease, latestCompatibleRelease)
             ELSE found
        ELSE LET candidate == ReleaseOf(pages[k][j])
             IN  IF ~isUpgradeCandidate(currentRelease.Version, candidate.Version)
                 THEN found
                 ELSE UpgradeCandidatesFrom(
                          pages, failAt, currentRelease, k, j + 1,
                          chooseNewestRelease(latestRelease, candidate),
                          IF SameMajor(currentRelease.Version, candidate.Version)
                          THEN chooseNewestRelease(latestCompatibleRelease, candidate)
                          ELSE latestCompatibleRelease)

\* a key that tells the commits of one version apart
upgradeKeyByCommit(targetRepo, currentRelease) ==
    cacheKey(targetRepo, currentRelease.Version \o "@" \o currentRelease.CommitHash)

\* cacheKey(targetRepo, currentRelease.Version)
upgradeKey(targetRepo, currentRelease) == cacheKey(targetRepo, currentRelease.Version)

\* the current releases GetUpgradeCandidates is called with
CurrentReleases ==
    { [Version |-> "v1.0.0", CommitHash |-> "differenthash"],
      [Version |-> "v1.0.0", CommitHash |-> "ddd444"],
      [Version |-> "v2.0.0", CommitHash |-> "aaa111"],
      [Version |-> "main", CommitHash |-> "abc123"],
      [Version |-> "", CommitHash |-> "abc123"] }

\* a call that has returned
Ret(currentRelease, out) ==
    [current |-> currentRelease, val |-> out.val, err |-> out.err]

GetUpgradeCandidates ==
    /\ \E currentRelease \in CurrentReleases :
          LET key == upgradeKey("o/a", currentRelease)
              out == UpgradeCandidatesFrom(
                         Paginate(releaseHost.releases, releaseHost.size),
                         releaseHost.failAt, currentRelease, 1, 1, NoRelease, NoRelease)
          IN  \/ /\ currentRelease.Version = ""
                 /\ rets' = rets \cup
                       {Ret(currentRelease, [val |-> NoCandidates, err |-> NoErr])}
                 /\ UNCHANGED <<cache, computed>>
              \/ /\ currentRelease.Version # ""
                 /\ Found("upgradeCache", key)
                 /\ rets' = rets \cup {Ret(currentRelease, Entry("upgradeCache", key))}
                 /\ UNCHANGED <<cache, computed>>
              \/ /\ currentRelease.Version # ""
                 /\ ~Found("upgradeCache", key)
                 /\ cache' = [cache EXCEPT
                                 !["upgradeCache"] = Store("upgradeCache", key, out)]
                 /\ computed' = [computed EXCEPT
                                    ![<<"o/a", currentRelease.Version>>] = Append(@, out.reqs)]
                 /\ rets' = rets \cup {Ret(currentRelease, out)}
    /\ UNCHANGED <<config, root, mu, calls, got, tasks, groupVars, diagnostics, recorded,
                   shown, pinVars, call, releaseHost>>

\* Engine.List: the line it prints under a step's current release
ListLine(current, candidates) ==
    IF current = NoRelease THEN "could not resolve action versions"
    ELSE IF candidates = NoCandidates THEN "no upgrade versions found"
    ELSE IF candidates.Latest = current THEN "already using latest version"
    ELSE "upgrades"

SelInit ==
    /\ EngineUnused
    /\ call = NoCall
    /\ releaseHost \in ReleaseHosts
    /\ computed = NeverComputed
    /\ rets = {}

SelNext == GetUpgradeCandidates

SelSpec == SelInit /\ [][SelNext]_vars

(***************************************************************************)
(* The three resolver calls with their repository argument, on a client    *)
(* whose caches are empty.                                                 *)
(***************************************************************************)
\* the string of a sequence of characters
RECURSIVE Str(_)
Str(cs) == IF cs = <<>> THEN "" ELSE Head(cs) \o Str(Tail(cs))

\* strings.Cut(s, "/"): the text before and after the first separator
Cut(s) ==
    LET cs == Chars(s)
        at == {k \in 1..Len(cs) : cs[k] = "/"}
    IN  IF at = {} THEN [before |-> s, after |-> "", found |-> FALSE]
        ELSE LET k == CHOOSE k \in at : \A j \in at : k <= j
             IN  [before |-> Str(SubSeq(cs, 1, k - 1)),
                  after |-> Str(SubSeq(cs, k + 1, Len(cs))), found |-> TRUE]

\* the repositories of the host, as <<owner, repo>>; a request about any
\* other one fails
HostRepos == {<<"o", "a">>, <<"a", "b">>}

\* the error of the do* functions for a targetRepo that strings.Cut cannot split
FormatError == "targetRepo must be specified in owner/repo format"

\* the host has the repository the identifier was cut into
OnHost(cut) == <<cut.before, cut.after>> \in HostRepos

\* what the REST API answers about a ref of a repository the host has, and
\* of one it does not have
RepoHost(there) ==
    IF there
    THEN [commit |-> "c1", branch |-> "c2",
          tagRef |-> [type |-> "commit", sha |-> "c3"], tagObject |-> ""]
    ELSE [commit |-> "", branch |-> "",
          tagRef |-> [type |-> "", sha |-> ""], tagObject |-> ""]

\* doGetCommitHashForRef with its targetRepo
CommitHashForRepo(cut, ref) ==
    IF ~cut.found THEN [val |-> "", err |-> FormatError, reqs |-> <<>>]
    ELSE CommitHashForRef(RepoHost(OnHost(cut)), ref)

\* doGetVersionTagsForHash with its targetRepo; the query about a
\* repository the host does not have fails
VersionTagsForRepo(cut, commitHash) ==
    IF ~cut.found THEN [val |-> <<>>, err |-> FormatError, reqs |-> 0]
    ELSE VersionTagsForHash(<<<<[Name |-> "v1.0.0", Oid |-> "aaa", Inner |-> ""]>>>>,
                            IF OnHost(cut) THEN 0 ELSE 1, commitHash, 1, <<>>)

\* doGetUpgradeCandidates with its targetRepo, over iterAllReleases
UpgradeCandidatesForRepo(cut, version) ==
    IF ~cut.found
    THEN [val |-> NoCandidates, err |-> Failure("upgrade", FALSE, "format"), reqs |-> 0]
    ELSE UpgradeCandidatesFrom(
             <<<<[TagName |-> "v2.0.0", Oid |-> "aaa111", Inner |-> ""],
                 [TagName |-> "v1.0.0", Oid |-> "ddd444", Inner |-> ""]>>>>,
             IF OnHost(cut) THEN 0 ELSE 1,
             [Version |-> version, CommitHash |-> "ddd444"], 1, 1, NoRelease, NoRelease)

ResolverFns ==
    {"GetCommitHashForRef", "GetVersionTagsForCommitHash", "GetUpgradeCandidates"}

\* a resolver call on a client that has nothing cached: GetUpgradeCandidates
\* returns at once for a release without a version, every other call runs
\* its thunk; the value, the error and the requests sent
ResolverCall(fn, targetRepo, param) ==
    CASE fn = "GetCommitHashForRef" -> CommitHashForRepo(Cut(targetRepo), param)
      [] fn = "GetVersionTagsForCommitHash" -> VersionTagsForRepo(Cut(targetRepo), param)
      [] fn = "GetUpgradeCandidates" /\ param = "" ->
            [val |-> NoCandidates, err |-> NoErr, reqs |-> 0]
      [] fn = "GetUpgradeCandidates" /\ param # "" ->
            UpgradeCandidatesForRepo(Cut(targetRepo), param)

\* the repository arguments: two of the host, one it does not have, one
\* without a separator and one with two
RepoArgs == {"o/a", "a/b", "o/b", "invalid-format", "a/b/c"}

\* the second argument of each call: a ref, a commit hash, the version of the
\* current release
ParamArgs(fn) ==
    CASE fn = "GetCommitHashForRef" -> {"main", "d", "c/d"}
      [] fn = "GetVersionTagsForCommitHash" -> {"aaa", "bbb"}
      [] fn = "GetUpgradeCandidates" -> {"", "v1.0.0", "v2.0.0"}

\* one resolver call on a new client and a second one after it: what each
\* returns, whether the second was served from the cache, and the arguments
\* its result was computed for
CallResolverTwice ==
    /\ call = NoCall
    /\ \E fn \in ResolverFns :
       \E first, second \in {<<r, p>> : r \in RepoArgs, p \in ParamArgs(fn)} :
       \E outs \in {[args \in {first, second} |-> ResolverCall(fn, args[1], args[2])]} :
       \E hit \in {/\ ~(fn = "GetUpgradeCandidates" /\ first[2] = "")
                   /\ ~(fn = "GetUpgradeCandidates" /\ second[2] = "")
                   /\ cacheKey(second[1], second[2]) = cacheKey(first[1], first[2])} :
          call' = [fn |-> "TwoResolverCalls", op |-> fn, first |-> first,
                   second |-> second, hit |-> hit,
                   rets |-> <<outs[first], IF hit THEN outs[first] ELSE outs[second]>>,
                   computedFor |-> IF hit THEN first ELSE second]
    /\ UNCHANGED <<engineVars, selVars>>

(***************************************************************************)
(* Pin in current mode, run on a file and then on its own output, against  *)
(* a remote that does not change.                                          *)
(***************************************************************************)
\* what the REST API answers about each ref of the repository: "v1.0.0" is
\* a tag, "develop" a branch, "abc123" the short form of a commit hash,
\* "aaa", "dddd" and "abc123ff" are full commit hashes, "nope" is nothing
PinHost(ref) ==
    LET nothing == [commit |-> "", branch |-> "",
                    tagRef |-> [type |-> "", sha |-> ""], tagObject |-> ""]
    IN  CASE ref = "v1.0.0" ->
                [nothing EXCEPT !.tagRef = [type |-> "commit", sha |-> "aaa"]]
          [] ref = "develop" -> [nothing EXCEPT !.branch = "dddd"]
          [] ref = "abc123" -> [nothing EXCEPT !.commit = "abc123ff"]
          [] ref \in {"aaa", "dddd", "abc123ff"} -> [nothing EXCEPT !.commit = ref]
          [] OTHER -> nothing

\* the tags of the repository, as the server lists them
PinTags ==
    <<[Name |-> "v1.0.0", Oid |-> "aaa", Inner |-> ""],
      [Name |-> "v1", Oid |-> "t2", Inner |-> "aaa"],
      [Name |-> "v1.0.1", Oid |-> "aaa", Inner |-> ""]>>

\* resolveStep without the upgrade lookup: the release of a ref, the absent
\* release when the ref does not resolve
ReleaseOfCommit(commit) ==
    IF commit.err # "" THEN NoRelease
    ELSE [Version |->
              BestVersion(VersionTagsForHash(Paginate(PinTags, 2), 0, commit.val,
                                             1, <<>>).val),
          CommitHash |-> commit.val]

ResolveRef(ref) == ReleaseOfCommit(CommitHashForRef(PinHost(ref), ref))

\* lines of a workflow file with the ref maybeParseAction reads from each,
\* "" where the line names no action
PinLines ==
    { [line |-> Line("name: ci", FALSE, "", "\n"), ref |-> ""],
      [line |-> Line("      - ", TRUE, " o/a@v1.0.0", "\n"), ref |-> "v1.0.0"],
      [line |-> Line("        ", TRUE, "  o/a@develop # old", "\r\n"), ref |-> "develop"],
      [line |-> Line("      - ", TRUE, " o/a@abc123", ""), ref |-> "abc123"],
      [line |-> Line("      - ", TRUE, " o/a@aaa # v1.0.1", "\n"), ref |-> "aaa"],
      [line |-> Line("      - ", TRUE, " o/a@dddd # ref:develop", "\n"), ref |-> "dddd"],
      [line |-> Line("      - ", TRUE, " o/a@nope", "\n"), ref |-> "nope"] }

\* the refs of those lines and the commit hashes they resolve to
PinRefs == {"v1.0.0", "develop", "abc123", "aaa", "dddd", "nope", "abc123ff"}

\* the step scanFile makes of a line and resolveSteps resolves in current
\* mode, rel being what resolveStep finds for each ref
PinStep(lineNum, ref, rel) ==
    StepArg(lineNum, ref, [Release |-> rel[ref], UpgradeCandidates |-> NoCandidates])

\* the step of each line of a file, by line number
PinSteps(f, rel) ==
    [k \in 0..(Len(f) - 1) |->
        IF f[k + 1].ref = "" THEN {} ELSE {PinStep(k, f[k + 1].ref, rel)}]

\* Pin in current mode on a file: the lines written
PinOnce(f, rel) ==
    RewriteLines([k \in 1..Len(f) |-> f[k].line], 0, PinSteps(f, rel), ModeCurrent)

\* a line as the next scan reads it: a pinned line names the commit hash as
\* its ref and carries the version hint as its comment
RereadLine(l, step) ==
    IF ~Exists(step.Release) THEN l
    ELSE [line |-> Line(l.line.before, TRUE,
                        " " \o step.Name \o "@" \o step.Release.CommitHash
                            \o VersionHint(step, step.Release),
                        l.line.eol),
          ref |-> step.Release.CommitHash]

\* the file as the next scan reads it
Reread(f, rel) ==
    [k \in 1..Len(f) |->
        IF f[k].ref = "" THEN f[k] ELSE RereadLine(f[k], PinStep(k - 1, f[k].ref, rel))]

\* Pin in current mode on a file, then again on what it wrote; the remote
\* answers both runs alike
CallPinTwice ==
    /\ call = NoCall
    /\ \E f \in UNION {[1..n -> PinLines] : n \in 1..MaxLines} :
       \E rel \in {[ref \in PinRefs |-> ResolveRef(ref)]} :
       \E g \in {Reread(f, rel)} :
       \E outs \in {[h \in {f, g} |-> PinOnce(h, rel).out]} :
          call' = [fn |-> "PinTwice",
                   lines |-> [k \in 1..Len(f) |-> Text(f[k].line)],
                   refs |-> [k \in 1..Len(f) |-> f[k].ref],
                   first |-> outs[f],
                   reread |-> [k \in 1..Len(g) |-> Text(g[k].line)],
                   second |-> outs[g]]
    /\ UNCHANGED <<engineVars, selVars>>

LibNext ==
    \/ CallIsUpgradeCandidate
    \/ CallChooseNewestRelease
    \/ CallChooseUpgrade
    \/ CallRewriteWorkflows
    \/ CallGetCommitHashForRef
    \/ CallGetVersionTagsForCommitHash
    \/ CallExists
    \/ CallResolverTwice
    \/ CallPinTwice

LibSpec == LibInit /\ [][LibNext]_vars

(***************************************************************************)
(* Properties of the cache.                                                *)
(***************************************************************************)
\* the cache holds an entry for the key
Has(c, key) == \E en \in cache[c] : en.key = key

\* the thunk of task i's call on cache c is in flight
InCall(i, c) ==
    /\ tasks[i].pc \in {"ref_call", "tags_call", "up_call"}
    /\ CacheAt(tasks[i].pc) = c

\* C1: on one cache the thunk is invoked at most once per key: the first Do
\* for a key invokes it and stores the pair, every later Do for the key
\* returns the stored pair, which never changes, without invoking it again.
C1_AtMostOncePerKey ==
    /\ [](\A c \in CacheNames :
            /\ \A k \in Keys :
                  /\ calls[c][k] <= 1
                  /\ Has(c, k) => calls[c][k] = 1
                  /\ (calls[c][k] = 1 /\ ~\E i \in StepIds : InCall(i, c) /\ KeyOf(i) = k)
                        => Has(c, k)
            /\ \A i \in StepIds : got[i][c] \subseteq cache[c])
    /\ [][\A c \in CacheNames : cache[c] \subseteq cache'[c]]_vars

\* two Do calls for one key have returned after a single invocation
C1_Witness ==
    \E c \in CacheNames : \E i, j \in StepIds :
        /\ i # j
        /\ \E p \in got[i][c] : p \in got[j][c] /\ calls[c][p.key] = 1

\* C2: when two tasks call Do with the same key at the same time, the thunk
\* runs once: only one task at a time is inside the thunk of a cache, no
\* other caller gets a pair from the cache while it runs, and both callers
\* end up with the same (value, error) pair.
C2_ConcurrentCallers ==
    /\ [](\A c \in CacheNames : \A i, j \in StepIds :
            i # j =>
              /\ ~(InCall(i, c) /\ InCall(j, c))
              /\ \A p \in got[i][c], q \in got[j][c] :
                    p.key = q.key => p = q /\ calls[c][p.key] = 1)
    /\ [][\A c \in CacheNames : \A i, j \in StepIds :
            (i # j /\ InCall(i, c)) => got'[j][c] = got[j][c]]_vars

\* a second caller waits for the key the first caller is computing
C2_Witness ==
    \E i, j \in StepIds :
        /\ i # j
        /\ tasks[i].pc = "ref_call"
        /\ tasks[j].pc = "ref"
        /\ KeyOf(i) = KeyOf(j)

\* C3: errors are cached in all three caches: an error a Do returned is
\* stored under its key, stays stored, and the thunk of that key is never
\* invoked again.
C3_ErrorsCached ==
    /\ [](\A c \in CacheNames : \A i \in StepIds : \A p \in got[i][c] :
            p.err # NoErr => calls[c][p.key] = 1 /\ p \in cache[c])
    /\ [][\A c \in CacheNames : \A en \in cache[c] :
            en.err # NoErr => en \in cache'[c] /\ calls'[c][en.key] = calls[c][en.key]]_vars

\* two tasks were handed the same cached error
C3_Witness ==
    \E i, j \in StepIds :
        /\ i # j
        /\ \E p \in got[i]["versionCache"] : p \in got[j]["versionCache"] /\ p.err # NoErr

(***************************************************************************)
(* Properties of the resolution pass.                                      *)
(***************************************************************************)
\* what the host alone determines for a step: its release ...
ExpectedRelease(i) ==
    LET r == doGetCommitHashForRef(StepAt(i).Name, StepAt(i).Ref)
        t == doGetVersionTagsForHash(StepAt(i).Name, r.val)
    IN IF r.err # NoErr \/ t.err # NoErr THEN NoRelease
       ELSE [Version |-> BestVersion(t.val), CommitHash |-> r.val]

\* ... and its upgrade candidates
ExpectedCandidates(i) ==
    IF ~fetchUpgrades \/ ExpectedRelease(i).Version = "" THEN NoCandidates
    ELSE doGetUpgradeCandidates(StepAt(i).Name, ExpectedRelease(i).Version).val

\* a diagnostic of the given level was recorded for step i
HasDiag(i, level) ==
    \E k \in 1..Len(recorded[WorkflowOf(i)]) :
        /\ recorded[WorkflowOf(i)][k].Step = i
        /\ recorded[WorkflowOf(i)][k].Level = level

\* some diagnostic was recorded for step i
HasAnyDiag(i) ==
    \E k \in 1..Len(recorded[WorkflowOf(i)]) : recorded[WorkflowOf(i)][k].Step = i

\* the task of step i holds a worker slot
Running(i) ==
    tasks[i].pc \in {"ref", "ref_call", "tags", "tags_call", "up", "up_call", "ret"}

NumRunning == Cardinality({i \in StepIds : Running(i)})

\* a worker slot has been acquired for step i
Acquired(i) == tasks[i].pc # "idle" \/ (idx = i /\ dpc = "go")

\* resolveStep failed for step i (the closure keeps the error in strict mode)
Failed(i) == tasks[i].pc \in {"ret", "released", "done"} /\ tasks[i].err # NoErr

\* the dispatch loop passed step i without starting it, on context.Canceled
Skipped(i) == i < idx /\ tasks[i].pc = "idle" /\ ctxErr = "Canceled"

\* C4: in lenient mode the pass returns success; unless the caller cancelled,
\* every step was attempted and holds exactly the release and candidates the
\* host determines for it alone, a step whose resolution failed has an absent
\* release and an error diagnostic.
C4_LenientIsolation ==
    (~strict /\ dpc = "returned") =>
        /\ result = NoErr
        /\ ctxCause # "external" =>
              \A i \in StepIds :
                  /\ tasks[i].pc = "done"
                  /\ StepAt(i).Release = ExpectedRelease(i)
                  /\ StepAt(i).UpgradeCandidates = ExpectedCandidates(i)
                  /\ ~Exists(StepAt(i).Release) =>
                        HasDiag(i, "ERROR") /\ StepAt(i).UpgradeCandidates = NoCandidates

\* a lenient pass has returned with one step unresolved and another resolved
C4_Witness ==
    /\ ~strict
    /\ dpc = "returned"
    /\ ctxCause # "external"
    /\ \E i, j \in StepIds :
          /\ ~Exists(StepAt(i).Release)
          /\ HasDiag(i, "ERROR")
          /\ Exists(StepAt(j).Release)

\* C5: in strict mode a failed step cancels the shared context and the pass
\* returns a non-nil error; once the context is done, a step for which no
\* slot was acquired yet is never started.
C5_StrictCancels ==
    /\ [](strict =>
            /\ \A i \in StepIds :
                  (tasks[i].pc = "done" /\ tasks[i].err # NoErr)
                     => (ctxErr # "" /\ gErr # NoErr)
            /\ (dpc = "returned" /\ \E i \in StepIds : Failed(i)) => result # NoErr)
    /\ [][(strict /\ ctxErr # "") =>
            \A i \in StepIds : ~Acquired(i) => (~Acquired(i))' /\ tasks'[i].pc = "idle"]_vars

\* a strict pass returned an error after a step failed and another was dropped
C5_Witness ==
    /\ strict
    /\ dpc = "returned"
    /\ ctxCause = "group"
    /\ result # NoErr
    /\ \E i, j \in StepIds : Failed(i) /\ tasks[i].err.cause = "remote" /\ Skipped(j)

\* C6: when the pass returned an error, Pin returns that error and never
\* enters the rewrite phase: no workflow file is replaced.
C6_NoRewriteOnError ==
    (dpc = "returned" /\ result # NoErr) =>
        /\ written = {}
        /\ pinPc # "rewrite"
        /\ pinPc = "done" => pinErr = result

\* Pin has returned the error of a failed strict pass
C6_Witness ==
    /\ strict
    /\ pinPc = "done"
    /\ result # NoErr
    /\ pinErr = result
    /\ \E i \in StepIds : Failed(i)

\* C7: whenever steps are being resolved their number is at most the worker
\* limit; a slot is held exactly by the tasks that started and have not
\* finished, and by the dispatch loop between Acquire and g.Go.
C7_BoundedConcurrency ==
    /\ NumRunning = 0 \/ NumRunning <= parallelism
    /\ semCur = NumRunning + (IF dpc = "go" THEN 1 ELSE 0)
    /\ semCur >= 0

\* the limit of two is reached and the dispatch loop waits for a slot
C7_Witness ==
    /\ parallelism = 2
    /\ NumRunning = 2
    /\ dpc = "acquire"
    /\ idx = 3
    /\ semCur = parallelism
    /\ ctxErr = ""

\* C8: the worker limit is at least 1: a zero or negative count given to
\* newEngine becomes 1, a positive count is used as given.
C8_WorkersAtLeastOne == parallelism = (IF jobs < 1 THEN 1 ELSE jobs)

\* C9: cancellation is never the reported cause of a failed pass: after a
\* strict-mode failure cancelled the context the pass returns the error of
\* the step that failed, and after the caller cancelled it the pass does not
\* return a task's context.Canceled error.
C9_CancellationNotReported ==
    dpc = "returned" =>
        /\ ctxCause = "group" => (result.step \in StepIds /\ result.cause = "remote")
        /\ ctxCause = "external" => ~result.isCanceled

\* C10: a step the dispatch loop passed because Acquire failed with
\* context.Canceled has no diagnostic, no error of its own, no release and no
\* candidates, and the loop went on through the remaining steps.
C10_SilentDrop ==
    /\ \A i \in StepIds :
          Skipped(i) =>
              /\ ~HasAnyDiag(i)
              /\ gErr.step # i /\ result.step # i
              /\ StepAt(i).Release = NoRelease
              /\ StepAt(i).UpgradeCandidates = NoCandidates
    /\ (ctxErr = "Canceled" /\ dpc = "returned") => idx = StepCount + 1

\* a step was dropped on context.Canceled and the loop went on to the end
C10_Witness ==
    /\ dpc = "returned"
    /\ \E i \in StepIds : Skipped(i) /\ i < StepCount
    /\ ctxCause \in {"external", "group"}

(***************************************************************************)
(* Properties of the per-step task.                                        *)
(***************************************************************************)
\* the phase of resolveStep a task position belongs to: 1 ref, 2 tags,
\* 3 upgrade candidates, 0 outside the three calls
PhaseOf(pc) ==
    CASE pc \in {"ref", "ref_call"} -> 1
      [] pc \in {"tags", "tags_call"} -> 2
      [] pc \in {"up", "up_call"} -> 3
      [] OTHER -> 0

\* the pair the ref lookup returned to the task of step i, if it returned
RefGot(i) == got[i]["refCache"]

\* the pair the tag lookup returned to the task of step i, if it returned
TagsGot(i) == got[i]["versionCache"]

\* the pair the cached candidate lookup returned to the task of step i
UpGot(i) == got[i]["upgradeCache"]

\* resolveStep has returned for step i
Returned(i) == tasks[i].pc \in {"ret", "released", "done"}

\* the release built from what phases 1 and 2 returned
Built(p, q) ==
    [Version |-> IF Len(q.val) > 0 THEN q.val[1] ELSE "", CommitHash |-> p.val]

\* the candidate lookup was invoked for step i and has returned
UpRan(i) ==
    \/ UpGot(i) # {}
    \/ StepAt(i).Release.Version = "" /\ HasDiag(i, "WARN")

\* C11: once the context is done, no task is started for a step that holds
\* no slot yet, and a task in flight begins no further phase: it returns
\* after the call it is at (or waits for).
C11_CancellationObserved ==
    /\ [][ctxErr # "" =>
            \A i \in StepIds : ~Acquired(i) => tasks'[i].pc = "idle"]_vars
    /\ [][ctxErr # "" =>
            \A i \in StepIds :
                PhaseOf(tasks'[i].pc) \in {2, 3} =>
                    PhaseOf(tasks'[i].pc) = PhaseOf(tasks[i].pc)]_vars

\* C12: the three phases of a step run in order: the tag lookup is made only
\* after the ref lookup succeeded and with the commit it returned, the
\* candidate lookup only when enabled, after the tag lookup succeeded and
\* with the release built from both results; a task that returns without an
\* error has been through every phase.
C12_PhaseOrder ==
    \A i \in StepIds :
        /\ (PhaseOf(tasks[i].pc) \in {2, 3} \/ TagsGot(i) # {}) =>
              \E p \in RefGot(i) :
                  /\ p.err = NoErr
                  /\ p.key = StepAt(i).Name \o "/" \o StepAt(i).Ref
                  /\ p.val = tasks[i].commit
        /\ PhaseOf(tasks[i].pc) = 1 => TagsGot(i) = {} /\ UpGot(i) = {}
        /\ \A q \in TagsGot(i) : q.key = StepAt(i).Name \o "/" \o tasks[i].commit
        /\ tasks[i].pc = "tags_call" =>
              \E k \in Keys : k = StepAt(i).Name \o "/" \o tasks[i].commit
                                /\ calls["versionCache"][k] = 1
        /\ (PhaseOf(tasks[i].pc) = 3 \/ UpGot(i) # {}) =>
              /\ mode # ModeCurrent
              /\ \E p \in RefGot(i), q \in TagsGot(i) :
                    q.err = NoErr /\ StepAt(i).Release = Built(p, q)
        /\ PhaseOf(tasks[i].pc) = 2 => UpGot(i) = {}
        /\ \A u \in UpGot(i) : u.key = StepAt(i).Name \o "/" \o StepAt(i).Release.Version
        /\ (tasks[i].pc = "ret" /\ tasks[i].err = NoErr) =>
              /\ \E p \in RefGot(i) : p.err = NoErr
              /\ \E q \in TagsGot(i) : q.err = NoErr
              /\ mode # ModeCurrent => UpRan(i)

\* a task has been through the three phases, each call made with the result
\* of the one before
C12_Witness ==
    \E i \in StepIds :
        /\ tasks[i].pc = "ret"
        /\ tasks[i].err = NoErr
        /\ \E p \in RefGot(i), q \in TagsGot(i), u \in UpGot(i) :
              /\ p.val = "c1"
              /\ q.key = "o/a/c1"
              /\ u.key = "o/a/v1.2.0"
              /\ u.val.Latest.Version = "v2.0.0"

\* C13: a step whose ref lookup or tag lookup failed has no release and no
\* candidates, none of its later phases ran, and its task has returned for
\* good: the failed lookup was invoked once.
C13_FailedStepStaysEmpty ==
    \A i \in StepIds :
        /\ (\E p \in RefGot(i) : p.err # NoErr) =>
              /\ StepAt(i).Release = NoRelease
              /\ StepAt(i).UpgradeCandidates = NoCandidates
              /\ TagsGot(i) = {} /\ UpGot(i) = {}
              /\ Returned(i)
              /\ \A p \in RefGot(i) : calls["refCache"][p.key] = 1
        /\ (\E q \in TagsGot(i) : q.err # NoErr) =>
              /\ StepAt(i).Release = NoRelease
              /\ StepAt(i).UpgradeCandidates = NoCandidates
              /\ UpGot(i) = {}
              /\ Returned(i)
              /\ \A q \in TagsGot(i) : calls["versionCache"][q.key] = 1

\* the pass is over with a step whose commit was resolved and whose tag
\* lookup failed on the host's side
C13_Witness ==
    /\ dpc = "returned"
    /\ \E i \in StepIds :
          /\ tasks[i].pc = "done"
          /\ \E q \in TagsGot(i) : q.err # NoErr /\ q.err.cause = "remote"
          /\ tasks[i].commit = "c1"
          /\ StepAt(i).Release = NoRelease

\* an error diagnostic of the given operation was recorded for step i
HasErrorOf(i, op) ==
    \E k \in 1..Len(recorded[WorkflowOf(i)]) :
        /\ recorded[WorkflowOf(i)][k].Step = i
        /\ recorded[WorkflowOf(i)][k].Level = "ERROR"
        /\ recorded[WorkflowOf(i)][k].Msg = op

\* C14: once the ref lookup and the tag lookup of a step succeeded, its
\* release holds the commit the ref lookup returned and the first tag the
\* tag lookup returned, or the empty version when it returned no tag; the
\* step has not failed, with or without a version.
C14_ReleaseFromTags ==
    \A i \in StepIds : \A p \in RefGot(i), q \in TagsGot(i) :
        (p.err = NoErr /\ q.err = NoErr) =>
            /\ StepAt(i).Release.CommitHash = p.val
            /\ StepAt(i).Release.CommitHash # ""
            /\ Len(q.val) > 0 => StepAt(i).Release.Version = q.val[1]
            /\ Len(q.val) = 0 => StepAt(i).Release.Version = ""
            /\ tasks[i].err = NoErr
            /\ ~HasErrorOf(i, "ref") /\ ~HasErrorOf(i, "tags")
            /\ gErr.step # i /\ result.step # i

\* the pass is over with a step resolved to a commit without a version and
\* a step resolved to the newest of two tags
C14_Witness ==
    /\ dpc = "returned"
    /\ result = NoErr
    /\ \E i, j \in StepIds :
          /\ tasks[i].pc = "done"
          /\ StepAt(i).Release = [Version |-> "", CommitHash |-> "c4"]
          /\ ~HasDiag(i, "ERROR")
          /\ \E q \in TagsGot(j) : q.val = <<"v1.2.0", "v1">>
          /\ StepAt(j).Release = [Version |-> "v1.2.0", CommitHash |-> "c1"]

\* C15: in current mode the candidate lookup is never invoked and every
\* step's candidates stay empty; in the other two modes it has been invoked
\* for every step that returned with its first two phases succeeded.
C15_LookupOnlyWhenNeeded ==
    /\ mode = ModeCurrent =>
          /\ \A i \in StepIds :
                /\ PhaseOf(tasks[i].pc) # 3
                /\ UpGot(i) = {}
                /\ StepAt(i).UpgradeCandidates = NoCandidates
                /\ ~HasDiag(i, "WARN") /\ ~HasErrorOf(i, "upgrade")
          /\ cache["upgradeCache"] = {}
          /\ mu["upgradeCache"] = 0
          /\ \A k \in Keys : calls["upgradeCache"][k] = 0
    /\ mode \in {ModeLatest, ModeCompat} =>
          \A i \in StepIds :
              (Returned(i) /\ \E p \in RefGot(i), q \in TagsGot(i) :
                                  p.err = NoErr /\ q.err = NoErr)
                 => UpRan(i)

\* a pass in current mode is over, every step resolved, none with candidates
C15_Witness ==
    /\ mode = ModeCurrent
    /\ dpc = "returned"
    /\ \A i \in StepIds :
          /\ tasks[i].pc = "done"
          /\ Exists(StepAt(i).Release)
          /\ StepAt(i).UpgradeCandidates = NoCandidates

\* C16: a failed candidate lookup does not fail its step: the step keeps the
\* release it resolved, has no candidates, has an error diagnostic, and its
\* task returns without an error; with no other failure and no cancellation
\* by the caller even a strict pass cancels nothing and returns success.
C16_LookupFailureNotFatal ==
    /\ \A i \in StepIds :
          (\E u \in UpGot(i) : u.err # NoErr) =>
              /\ \E p \in RefGot(i), q \in TagsGot(i) : StepAt(i).Release = Built(p, q)
              /\ Exists(StepAt(i).Release)
              /\ StepAt(i).UpgradeCandidates = NoCandidates
              /\ HasErrorOf(i, "upgrade")
              /\ Returned(i)
              /\ tasks[i].err = NoErr
              /\ gErr.step # i /\ result.step # i
    /\ (remote.noRef = {} /\ remote.tagErr = {} /\ ctxCause # "external") =>
          /\ ctxCause # "group"
          /\ gErr = NoErr
          /\ result = NoErr

\* a strict pass returned success although a candidate lookup failed
C16_Witness ==
    /\ strict
    /\ dpc = "returned"
    /\ result = NoErr
    /\ ctxCause = "wait"
    /\ \E i, j \in StepIds :
          /\ \E u \in UpGot(i) : u.err # NoErr /\ u.err.cause = "remote"
          /\ HasErrorOf(i, "upgrade")
          /\ StepAt(i).Release.Version = "v1.2.0"
          /\ i # j
          /\ tasks[j].pc = "done"
          /\ Exists(StepAt(j).Release)

(***************************************************************************)
(* Properties of the step fields.                                          *)
(***************************************************************************)
\* the scanned part of a step: what the scan phase filled in
Scanned(st) == <<st.LineNumber, st.Name, st.Ref>>

\* the resolved part of a step: what a resolution pass fills in
Resolved(st) == <<st.Release, st.UpgradeCandidates>>

\* C17: a step is given to at most one task, when the dispatch loop is at
\* it, and the loop never comes back to a step; the fields of a step are
\* written by the running task of that step alone, whatever the other tasks
\* do at the same time.
C17_OneTaskPerStep ==
    /\ [][/\ idx' >= idx
          /\ \A i \in StepIds :
                (tasks'[i].pc = "ref" /\ tasks[i].pc # "ref") =>
                    tasks[i].pc = "idle" /\ idx = i /\ idx' = i + 1]_vars
    /\ [][\A st \in StepIds :
            Resolved(StepAt(st))' # Resolved(StepAt(st)) =>
                /\ Running(st)
                /\ tasks'[st] # tasks[st]
                /\ \A j \in StepIds \ {st} : tasks'[j] = tasks[j]]_vars

\* two tasks run at the same time and each has written its own step
C17_Witness ==
    \E i, j \in StepIds :
        /\ i # j
        /\ Running(i) /\ Running(j)
        /\ StepAt(i).Release.CommitHash = "c1"
        /\ StepAt(j).Release.CommitHash = "c3"

\* C18: a pass leaves the workflows, the order of their steps and every
\* step's line number, name and ref as they are; what a task assigned to the
\* release and the candidates of its step is what the root holds, during
\* and after the pass.
C18_FrameOfThePass ==
    /\ [][/\ DOMAIN root' = DOMAIN root
          /\ \A w \in DOMAIN root :
                /\ Len(root'[w]) = Len(root[w])
                /\ \A k \in 1..Len(root[w]) :
                      Scanned(root'[w][k]) = Scanned(root[w][k])]_vars
    /\ [](\A i \in StepIds :
            /\ \A p \in RefGot(i), q \in TagsGot(i) :
                  (p.err = NoErr /\ q.err = NoErr) => StepAt(i).Release = Built(p, q)
            /\ \A u \in UpGot(i) : StepAt(i).UpgradeCandidates = u.val)

\* Pin is about to rewrite from a root that holds what the tasks resolved
C18_Witness ==
    /\ dpc = "returned"
    /\ pinPc = "rewrite"
    /\ \E i, j \in StepIds :
          /\ \E p \in RefGot(i), q \in TagsGot(i) :
                p.err = NoErr /\ q.err = NoErr /\ StepAt(i).Release = Built(p, q)
          /\ \E u \in UpGot(i) :
                u.val # NoCandidates /\ StepAt(i).UpgradeCandidates = u.val
          /\ StepAt(j).Release.CommitHash = "c3"

\* C19: a release or candidates once assigned are not assigned again, a task
\* that returned writes nothing more, and once the pass has returned no task
\* is running and no step field changes.
C19_WrittenOnceThenReadOnly ==
    /\ [][\A st \in StepIds :
            /\ StepAt(st).Release # NoRelease =>
                  (StepAt(st).Release)' = StepAt(st).Release
            /\ StepAt(st).UpgradeCandidates # NoCandidates =>
                  (StepAt(st).UpgradeCandidates)' = StepAt(st).UpgradeCandidates
            /\ Returned(st) => StepAt(st)' = StepAt(st)]_vars
    /\ [](dpc = "returned" => \A i \in StepIds : tasks[i].pc \in {"idle", "done"})
    /\ [][dpc = "returned" => root' = root]_vars

(***************************************************************************)
(* Properties of the candidate selection.                                  *)
(***************************************************************************)
\* C20: for a release with an empty version GetUpgradeCandidates returns
\* empty candidates and no error without going to the cache or the host: no
\* thunk runs for the step, Do returns it nothing, the upgrade cache gets no
\* entry for an empty version, and the step ends with empty candidates and
\* the warning that none were found.
C20_NoVersionNoLookup ==
    /\ \A i \in StepIds :
          (Exists(StepAt(i).Release) /\ StepAt(i).Release.Version = "") =>
              /\ tasks[i].pc # "up_call"
              /\ mu["upgradeCache"] # i
              /\ UpGot(i) = {}
              /\ StepAt(i).UpgradeCandidates = NoCandidates
              /\ ~HasErrorOf(i, "upgrade")
              /\ (Returned(i) /\ mode # ModeCurrent) => HasDiag(i, "WARN")
              /\ tasks[i].err = NoErr
    /\ \A en \in cache["upgradeCache"] : \A n \in Names : en.key # n \o "/"

\* a step without a version went through the candidate lookup while the
\* cache served another step
C20_Witness ==
    /\ mode = ModeLatest
    /\ \E i, j \in StepIds :
          /\ tasks[i].pc = "done"
          /\ StepAt(i).Release = [Version |-> "", CommitHash |-> "c4"]
          /\ StepAt(i).UpgradeCandidates = NoCandidates
          /\ HasDiag(i, "WARN")
          /\ UpGot(j) # {}
          /\ \A en \in cache["upgradeCache"] : en.key = "o/a/v1.2.0"

(***************************************************************************)
(* Properties of the library functions.                                    *)
(***************************************************************************)
\* semver precedence as the semver specification defines it, for the valid
\* versions of the universe: 0 for a string that is not a semantic version
Precedence(v) ==
    CASE v \in {"v1", "v1.0.0"} -> 1
      [] v = "v1.0.1-prerelease" -> 2
      [] v = "v1.0.1" -> 3
      [] v = "v1.1.0" -> 4
      [] v = "v1.2.0" -> 5
      [] v = "v2.0.0" -> 6
      [] v = "v10.0.0" -> 7
      [] OTHER -> 0

\* C23: isUpgradeCandidate(current, candidate) is true exactly when the
\* candidate is a semantic version and the current version is not one or
\* does not come after the candidate in precedence; so it is true for a
\* version and itself, true from older to newer and false from newer to
\* older, and false for a candidate that is not a semantic version.
C23_IsUpgradeCandidate ==
    call.fn = "isUpgradeCandidate" =>
        /\ call.ret <=>
              (Precedence(call.candidate) > 0 /\
                 (Precedence(call.current) = 0 \/
                    Precedence(call.candidate) >= Precedence(call.current)))
        /\ (call.current = call.candidate /\ Precedence(call.current) > 0) => call.ret
        /\ (0 < Precedence(call.current) /\ Precedence(call.current) < Precedence(call.candidate))
              => call.ret
        /\ (0 < Precedence(call.candidate) /\ Precedence(call.candidate) < Precedence(call.current))
              => ~call.ret
        /\ Precedence(call.candidate) = 0 => ~call.ret
        /\ (call.current = "main" /\ call.candidate = "v1.0.0") => call.ret
        /\ (call.current = "v1.0.0" /\ call.candidate = "main") => ~call.ret
        /\ (call.current = "main" /\ call.candidate = "bad") => ~call.ret

\* a version was found to be an upgrade candidate of itself
C23_Witness ==
    /\ call.fn = "isUpgradeCandidate"
    /\ call.current = "v1.0.0"
    /\ call.candidate = "v1.0.0"
    /\ call.ret

\* C24: chooseNewestRelease(a, b) is a when a's version comes strictly after
\* b's in precedence and b otherwise: the second argument wins between equal
\* versions, and a release chosen against itself is that release.
C24_ChooseNewestRelease ==
    call.fn = "chooseNewestRelease" =>
        /\ call.ret = IF Precedence(call.a.Version) > Precedence(call.b.Version)
                      THEN call.a ELSE call.b
        /\ (call.a.Version = call.b.Version) => call.ret = call.b
        /\ call.a = call.b => call.ret = call.a

\* of two releases of one version with different commits the second was chosen
C24_Witness ==
    /\ call.fn = "chooseNewestRelease"
    /\ call.a = [Version |-> "v1.0.0", CommitHash |-> "abc"]
    /\ call.b = [Version |-> "v1.0.0", CommitHash |-> "def"]
    /\ call.ret = call.b

\* C25: chooseUpgrade returns the current release in current mode, the
\* latest candidate in latest mode and the latest compatible candidate in
\* compat mode when that candidate exists, and the current release when it
\* does not.
C25_ChooseUpgrade ==
    call.fn = "chooseUpgrade" =>
        LET cur == call.step.Release
            latest == call.step.UpgradeCandidates.Latest
            compat == call.step.UpgradeCandidates.LatestCompatible
        IN /\ call.mode = "current" => call.ret = cur
           /\ call.mode = "latest" =>
                 call.ret = IF latest # [Version |-> "", CommitHash |-> ""]
                            THEN latest ELSE cur
           /\ call.mode = "latest compatible" =>
                 call.ret = IF compat # [Version |-> "", CommitHash |-> ""]
                            THEN compat ELSE cur
           /\ (/\ cur = [Version |-> "v1.0.0", CommitHash |-> "differenthash"]
               /\ latest = [Version |-> "v2.0.0", CommitHash |-> "aaa111"]
               /\ compat = [Version |-> "v1.2.0", CommitHash |-> "bbb222"]) =>
                 call.ret = CASE call.mode = "latest compatible" -> compat
                              [] call.mode = "latest" -> latest
                              [] call.mode = "current" -> cur

\* compat mode fell back to the current release of a step that has a latest
\* candidate only
C25_Witness ==
    /\ call.fn = "chooseUpgrade"
    /\ call.mode = "latest compatible"
    /\ call.step.UpgradeCandidates.Latest = [Version |-> "v2.0.0", CommitHash |-> "aaa111"]
    /\ call.step.UpgradeCandidates.LatestCompatible = NoRelease
    /\ call.ret = [Version |-> "v1.0.0", CommitHash |-> "differenthash"]

\* the step on the k-th line of the rewritten file, if any, has a release to pin
Pinned(k) ==
    \E st \in call.steps[k - 1] :
        CASE call.mode = "current" -> st.Release # NoRelease
          [] call.mode = "latest" ->
                st.Release # NoRelease \/ st.UpgradeCandidates.Latest # NoRelease
          [] call.mode = "latest compatible" ->
                st.Release # NoRelease \/ st.UpgradeCandidates.LatestCompatible # NoRelease

\* C26: a line whose step has no release to pin, and a line without a step,
\* come out of the rewrite exactly as they went in, line ending included,
\* and neither makes the rewrite fail.
C26_UnresolvedLineUntouched ==
    call.fn = "rewriteWorkflows" =>
        /\ ~call.err =>
              /\ Len(call.out) = Len(call.lines)
              /\ \A k \in 1..Len(call.lines) :
                    ~Pinned(k) => call.out[k] = Text(call.lines[k])
        /\ (\A k \in 1..Len(call.lines) : ~Pinned(k)) => ~call.err

\* a file with a line without a step and the line of an unresolved step was
\* rewritten to itself
C26_Witness ==
    /\ call.fn = "rewriteWorkflows"
    /\ ~call.err
    /\ Len(call.lines) = 2
    /\ call.steps[0] = {}
    /\ \E st \in call.steps[1] : st.Release = NoRelease
    /\ call.out = <<"name: ci\n", "      - uses: o/a@v1.0.0\n">>

\* C27: the line of a step that is pinned becomes the text before "uses:",
\* then "uses: name@hash" with the hash of the chosen release, then the
\* comment: the chosen version if there is one, else "ref:" and the original
\* ref if that differs from the hash, else nothing; then the line's ending.
C27_RewrittenLine ==
    call.fn = "rewriteWorkflows" =>
        \A k \in 1..Len(call.out) : \A st \in call.steps[k - 1] :
            Pinned(k) =>
                LET cands == st.UpgradeCandidates
                    pin == CASE call.mode = "current" -> st.Release
                             [] call.mode = "latest" ->
                                   IF cands.Latest # NoRelease THEN cands.Latest
                                   ELSE st.Release
                             [] call.mode = "latest compatible" ->
                                   IF cands.LatestCompatible # NoRelease
                                   THEN cands.LatestCompatible ELSE st.Release
                    comment == IF pin.Version # "" THEN " # " \o pin.Version
                               ELSE IF st.Ref # pin.CommitHash THEN " # ref:" \o st.Ref
                               ELSE ""
                IN call.out[k] = call.lines[k].before \o "uses: " \o st.Name \o "@"
                                    \o pin.CommitHash \o comment \o call.lines[k].eol

\* a branch without a release was pinned with a ref comment and a full hash
\* without any comment
C27_Witness ==
    /\ call.fn = "rewriteWorkflows"
    /\ call.mode = "current"
    /\ call.out = <<"        uses: o/a@c4 # ref:develop\r\n", "      - uses: o/a@abc123">>

\* the refs of the universe that consist of hexadecimal digits
HexRefs == {"abc123", "bad"}

\* C30: GetCommitHashForRef asks for the commit only when the ref consists of
\* hexadecimal digits, then for the branch, then for the tag, stops at the
\* first request that succeeds and returns its commit; for an annotated tag it
\* asks once more, for the tag object, and returns what that object points at;
\* when nothing succeeds the error is 'failed to resolve reference'.
C30_RefInterpretationOrder ==
    call.fn = "GetCommitHashForRef" =>
        LET h == call.host
            ref == call.ref
            asCommit == ref \in HexRefs /\ h.commit # ""
            asBranch == h.branch # ""
            asTag == h.tagRef.type = "commit" \/ (h.tagRef.type = "tag" /\ h.tagObject # "")
            first == IF ref \in HexRefs THEN <<<<"commits", ref>>>> ELSE <<>>
            order == first \o <<<<"git/ref/heads", ref>>, <<"git/ref/tags", ref>>,
                                <<"git/tags", h.tagRef.sha>>>>
            sent == IF asCommit THEN Len(first)
                    ELSE IF asBranch THEN Len(first) + 1
                    ELSE IF h.tagRef.type = "tag" THEN Len(first) + 3
                    ELSE Len(first) + 2
        IN  /\ call.reqs = SubSeq(order, 1, sent)
            /\ asCommit => call.ret = h.commit /\ call.err = ""
            /\ ~asCommit /\ asBranch => call.ret = h.branch /\ call.err = ""
            /\ ~asCommit /\ ~asBranch /\ asTag =>
                  /\ call.err = ""
                  /\ call.ret = IF h.tagRef.type = "commit" THEN h.tagRef.sha
                                ELSE h.tagObject
            /\ ~asCommit /\ ~asBranch /\ ~asTag =>
                  call.ret = "" /\ call.err = "failed to resolve reference " \o ref

\* a branch and a tag both named v1: the branch wins and the tag is not asked for
C30_Witness ==
    /\ call.fn = "GetCommitHashForRef"
    /\ call.ref = "v1"
    /\ call.host.branch = "c2"
    /\ call.host.tagRef.type = "commit"
    /\ call.ret = "c2"
    /\ call.reqs = <<<<"git/ref/heads", "v1">>>>

\* of two names of equal precedence, the one that spells out more components
MoreSpecific(a, b) == a = "v1.0.0" /\ b = "v1"

\* C29: when no request fails, GetVersionTagsForCommitHash has read every page
\* and returns, each once, exactly the names of the tags on any page that are
\* semantic versions and point at the commit, directly or through a tag
\* object, in descending precedence, the more specific of two names of equal
\* precedence first.
C29_VersionTagsOfCommit ==
    call.fn = "GetVersionTagsForCommitHash" /\ call.failAt = 0 =>
        LET pointing == {k \in 1..Len(call.nodes) :
                            /\ Precedence(call.nodes[k].Name) > 0
                            /\ \/ call.nodes[k].Oid = call.commitHash
                               \/ call.nodes[k].Inner = call.commitHash}
        IN  /\ call.err = ""
            /\ call.reqs = Len(call.pages)
            /\ {call.ret[j] : j \in 1..Len(call.ret)} = {call.nodes[k].Name : k \in pointing}
            /\ Len(call.ret) = Cardinality(pointing)
            /\ \A j \in 1..(Len(call.ret) - 1) :
                  \/ Precedence(call.ret[j]) > Precedence(call.ret[j + 1])
                  \/ /\ Precedence(call.ret[j]) = Precedence(call.ret[j + 1])
                     /\ MoreSpecific(call.ret[j], call.ret[j + 1])

\* four tags of the commit listed oldest first over two pages, two of them annotated
C29_Witness ==
    /\ call.fn = "GetVersionTagsForCommitHash"
    /\ call.commitHash = "aaa"
    /\ Len(call.pages) = 2
    /\ [k \in 1..Len(call.nodes) |-> call.nodes[k].Name] =
          <<"v1", "v1.0.0", "v1.0.1-prerelease", "v1.0.1">>
    /\ call.ret = <<"v1.0.1", "v1.0.1-prerelease", "v1.0.0", "v1">>

(***************************************************************************)
(* Properties of the selector.                                             *)
(***************************************************************************)
\* the major version number of the valid versions of the universe, 0 for a
\* string that is not a semantic version
MajorNumber(v) ==
    CASE v \in {"v1", "v1.0.0", "v1.0.1-prerelease", "v1.0.1", "v1.1.0", "v1.2.0"} -> 1
      [] v = "v2.0.0" -> 2
      [] v = "v10.0.0" -> 10
      [] OTHER -> 0

\* the candidate stream: the releases of the host with the commits their tags
\* stand for, in the order listed
Stream == [k \in 1..Len(releaseHost.releases) |-> ReleaseOf(releaseHost.releases[k])]

StreamSet == {Stream[k] : k \in 1..Len(Stream)}

\* the release of greatest precedence in a set of releases, absent for none
Greatest(S) ==
    IF S = {} THEN NoRelease
    ELSE CHOOSE c \in S : \A d \in S : Precedence(d.Version) <= Precedence(c.Version)

\* C21: when no request fails, the current version is a semantic version and
\* every release of the stream is a semantic version not older than it, the
\* selector returns without error, with the release of greatest version as
\* Latest and, as LatestCompatible, the release of greatest version among
\* those of the current major version, absent when there is none.
C21_SelectorResult ==
    \A r \in rets :
        /\ releaseHost.failAt = 0
        /\ Precedence(r.current.Version) > 0
        /\ \A c \in StreamSet : Precedence(c.Version) >= Precedence(r.current.Version)
        => /\ r.err = NoErr
           /\ r.val.Latest = Greatest(StreamSet)
           /\ r.val.LatestCompatible =
                 Greatest({c \in StreamSet :
                              MajorNumber(c.Version) = MajorNumber(r.current.Version)})

\* current v1.0.0 against v2.0.0, v1.2.0, v1.1.0, v1.0.0 listed on two pages
C21_Witness ==
    /\ [k \in 1..Len(Stream) |-> Stream[k].Version] =
          <<"v2.0.0", "v1.2.0", "v1.1.0", "v1.0.0">>
    /\ releaseHost.size = 2
    /\ computed[<<"o/a", "v1.0.0">>] = <<2>>
    /\ \E r \in rets :
          /\ r.current = [Version |-> "v1.0.0", CommitHash |-> "differenthash"]
          /\ r.val = [Latest |-> [Version |-> "v2.0.0", CommitHash |-> "aaa111"],
                      LatestCompatible |-> [Version |-> "v1.2.0", CommitHash |-> "bbb222"]]

\* C22: doGetUpgradeCandidates runs at most once for a repository and a
\* current version, and two calls for the same repository and version return
\* the same candidates and error, whatever commit the current release carries.
C22_ComputedOncePerVersion ==
    /\ \A p \in DOMAIN computed : Len(computed[p]) <= 1
    /\ \A r, q \in rets :
          r.current.Version = q.current.Version => r.val = q.val /\ r.err = q.err

\* v1.0.0 asked for under two commits, computed once
C22_Witness ==
    /\ Len(computed[<<"o/a", "v1.0.0">>]) = 1
    /\ \E r, q \in rets :
          /\ r.current.Version = "v1.0.0" /\ q.current.Version = "v1.0.0"
          /\ r.current.CommitHash # q.current.CommitHash
          /\ r.val.Latest.Version = "v2.0.0"
          /\ q.val = r.val

C33_ExistsIffAFieldIsSet ==
    call.fn = "Exists" =>
        /\ call.ret = (call.r.Version # "" \/ call.r.CommitHash # "")
        /\ ~call.ret <=> (call.r.Version = "" /\ call.r.CommitHash = "")

\* a release that has a commit hash and no version exists
C33_Witness ==
    /\ call.fn = "Exists"
    /\ call.r = [Version |-> "", CommitHash |-> "abc"]
    /\ call.ret = TRUE

(***************************************************************************)
(* Properties of the selector's early exit.                                *)
(***************************************************************************)
\* whether a version is an upgrade candidate of the current one, by precedence
NotOlder(currentVersion, candidateVersion) ==
    /\ Precedence(candidateVersion) > 0
    /\ Precedence(currentVersion) = 0 \/
          Precedence(candidateVersion) >= Precedence(currentVersion)

\* the position of the first release of the stream that is not an upgrade
\* candidate of the current release, one past the end when there is none
StopAt(current) ==
    IF \A k \in 1..Len(Stream) : NotOlder(current.Version, Stream[k].Version)
    THEN Len(Stream) + 1
    ELSE CHOOSE k \in 1..Len(Stream) :
            /\ ~NotOlder(current.Version, Stream[k].Version)
            /\ \A j \in 1..(k - 1) : NotOlder(current.Version, Stream[j].Version)

\* the releases listed before that position
Prefix(current) == {Stream[k] : k \in 1..(StopAt(current) - 1)}

\* C34: a call for a current version that returns without error returns the
\* newest release, and the newest release of the current major version, among
\* the releases listed before the first one that is not an upgrade candidate:
\* the releases listed after it, newer ones included, have no effect.
C34_ResultFromPrefix ==
    \A r \in rets :
        r.current.Version # "" /\ r.err = NoErr =>
            /\ r.val.Latest = Greatest(Prefix(r.current))
            /\ r.val.LatestCompatible =
                  Greatest({c \in Prefix(r.current) :
                               MajorNumber(c.Version) = MajorNumber(r.current.Version)})

\* current v1.0.0 against v1.1.0, a release that is not semver, then v2.0.0
C34_Witness ==
    /\ [k \in 1..Len(Stream) |-> Stream[k].Version] = <<"v1.1.0", "bad", "v2.0.0">>
    /\ \E r \in rets :
          /\ r.current.Version = "v1.0.0"
          /\ r.err = NoErr
          /\ r.val.Latest = [Version |-> "v1.1.0", CommitHash |-> "ccc333"]

\* the pages the host cuts the stream into
NumPages ==
    IF Len(Stream) = 0 THEN 1
    ELSE (Len(Stream) + releaseHost.size - 1) \div releaseHost.size

\* the page on which the selector leaves its loop when no request fails
StopPage(current) ==
    IF StopAt(current) > Len(Stream) THEN NumPages
    ELSE (StopAt(current) + releaseHost.size - 1) \div releaseHost.size

\* C35: a run of the selector requests the pages one after the other up to the
\* page on which it stops, or up to the page whose request fails if that comes
\* first, and no page after it; its calls fail exactly when a request it sent
\* failed.
C35_PagesOnDemand ==
    \A p \in DOMAIN computed :
        LET current == [Version |-> p[2]]
            failed == releaseHost.failAt \in 1..StopPage(current)
        IN  /\ \A n \in 1..Len(computed[p]) :
                  computed[p][n] = IF failed THEN releaseHost.failAt ELSE StopPage(current)
            /\ \A r \in rets : r.current.Version = p[2] => (r.err # NoErr) = failed

\* the selector stops on the first of two pages and the second, whose request
\* would fail, is not asked for
C35_Witness ==
    /\ Len(Stream) = 4
    /\ releaseHost.size = 2
    /\ releaseHost.failAt = 2
    /\ computed[<<"o/a", "v2.0.0">>] = <<1>>
    /\ \E r \in rets :
          /\ r.current.Version = "v2.0.0"
          /\ r.err = NoErr

\* C39: in a result returned without error, LatestCompatible, if present, has
\* the major version of the current release and is not older than it; Latest,
\* if present, is not older than the current release nor than
\* LatestCompatible; LatestCompatible is present only if Latest is; and for a
\* current version that is not a semantic version LatestCompatible is absent.
C39_ResultShape ==
    \A r \in rets :
        r.err = NoErr =>
            LET current == r.current.Version
                latest == r.val.Latest
                compat == r.val.LatestCompatible
            IN  /\ compat # NoRelease =>
                      /\ MajorNumber(compat.Version) = MajorNumber(current)
                      /\ MajorNumber(compat.Version) > 0
                      /\ Precedence(compat.Version) >= Precedence(current)
                /\ latest # NoRelease =>
                      /\ Precedence(latest.Version) > 0
                      /\ Precedence(latest.Version) >= Precedence(current)
                      /\ Precedence(latest.Version) >= Precedence(compat.Version)
                /\ compat # NoRelease => latest # NoRelease
                /\ Precedence(current) = 0 => compat = NoRelease

\* a branch name as current version: a latest release and no compatible one
C39_Witness ==
    \E r \in rets :
        /\ r.current.Version = "main"
        /\ r.err = NoErr
        /\ r.val.Latest.Version = "v2.0.0"
        /\ r.val.LatestCompatible = NoRelease

(***************************************************************************)
(* Properties of the diagnostics.                                          *)
(***************************************************************************)
\* C32: when the pass has completed, the summary shows every diagnostic that
\* was recorded during the pass, grouped by workflow file.
C32_DiagnosticsRendered ==
    dpc = "returned" /\ result = NoErr => shown = Rendered(recorded)

\* the repository identifiers of exactly the form owner/repo
IsOwnerRepo(targetRepo) ==
    Cardinality({k \in 1..Len(Chars(targetRepo)) : Chars(targetRepo)[k] = "/"}) = 1

\* a resolver call returned an error
CallFailed(op, ret) ==
    IF op = "GetUpgradeCandidates" THEN ret.err # NoErr ELSE ret.err # ""

\* the number of requests a resolver call sent
Requests(op, ret) ==
    IF op = "GetCommitHashForRef" THEN Len(ret.reqs) ELSE ret.reqs

\* C31: a resolver call whose repository identifier is not exactly owner/repo
\* fails and sends no request.
C31_InvalidRepoRejected ==
    call.fn = "TwoResolverCalls" /\ ~IsOwnerRepo(call.first[1])
        => CallFailed(call.op, call.rets[1]) /\ Requests(call.op, call.rets[1]) = 0

C40_PinIdempotent ==
    call.fn = "PinTwice" => call.second = call.first

\* the file the second run reads is the text the first run wrote
RereadIsOutput ==
    call.fn = "PinTwice" => call.reread = call.first

(***************************************************************************)
(* Properties of the pass as a whole.                                      *)
(***************************************************************************)
\* a step of the pass itself: of the dispatch loop or of one of its tasks
PassStep ==
    \/ Acquire
    \/ AcquireCanceled
    \/ AcquireFailed
    \/ Go
    \/ Wait
    \/ \E i \in StepIds : DoHit(i)
    \/ \E i \in StepIds : DoMiss(i)
    \/ \E i \in StepIds : DoReturn(i)
    \/ \E i \in StepIds : UpNoVersion(i)
    \/ \E i \in StepIds : TaskFinish(i)
    \/ \E i \in StepIds : TaskExit(i)

\* C36: a pass that has not returned can always take a step of its own,
\* whether or not the caller cancels: the dispatch loop is never left
\* waiting for a worker slot and no task for a cache lock with nothing that
\* could end the wait.
C36_PassNeverStuck == dpc = "returned" \/ ENABLED PassStep

\* the same for a worker limit of at least one
PassNeverStuckWithWorkers == parallelism >= 1 => C36_PassNeverStuck

\* C37: in lenient mode, with at least one worker and no cancellation by the
\* caller, a task that has finished its step has left in it the release and
\* the candidates the host determines for that step alone, whatever the other
\* tasks have done so far and in whatever order; when the pass has returned,
\* every step has been finished.
C37_ResultIndependentOfSchedule ==
    (~strict /\ parallelism >= 1 /\ ctxCause # "external") =>
        /\ \A i \in StepIds :
              tasks[i].pc \in {"ret", "released", "done"} =>
                  /\ StepAt(i).Release = ExpectedRelease(i)
                  /\ StepAt(i).UpgradeCandidates = ExpectedCandidates(i)
        /\ dpc = "returned" => \A i \in StepIds : tasks[i].pc = "done"

\* with two workers, a later step was finished with a release while the step
\* dispatched before it is still being resolved
C37_Witness ==
    /\ ~strict
    /\ parallelism = 2
    /\ ctxCause # "external"
    /\ \E i, j \in StepIds :
          /\ i < j
          /\ tasks[i].pc \in {"ref", "ref_call", "tags", "tags_call"}
          /\ tasks[j].pc = "done"
          /\ Exists(StepAt(j).Release)
          /\ StepAt(j).Release = ExpectedRelease(j)

====
